---------------------------- MODULE Spec2Model ----------------------------
(***************************************************************************)
(* VideoTrans: the subtitle job pipeline of app.py (upload, /process and   *)
(* its background thread, /download), with the collaborators of           *)
(* utils/transcribe.py and utils/subtitle_formats.py.                      *)
(*                                                                         *)
(* Every collaborator call (ffmpeg, whisper, the file system, the Flask    *)
(* session proxy used from the background thread) returns or raises; the   *)
(* outcome is drawn with \E in the action that makes the call.             *)
(***************************************************************************)
EXTENDS Integers, Sequences, FiniteSets, TLC

(***************************************************************************)
(* Bounds of the model.                                                    *)
(***************************************************************************)
MaxJobs == 1       \* /process submissions in one behaviour
MaxFormats == 2    \* length of the "formats" list of a request
MaxLangs == 2      \* length of the "target_languages" list of a request
MaxUnits == 6      \* passes of the format x language loop, over all jobs
MaxOverlapUnits == 2  \* the same, where one more job may be submitted
MaxFaults == 1     \* collaborator calls that raise, over all jobs
MaxSegments == 11  \* segments of a transcript handed to translate_transcript
MaxCallers == 2    \* threads that are in get_whisper_model at a time
MaxCues == 2       \* segments of a list handed to to_srt, to_vtt and to_ass
MaxMillis == 2100  \* every time up to MaxMillis/1000 seconds is formatted
MaxManyLangs == 24 \* target languages of a long /process request

(***************************************************************************)
(* Values.                                                                 *)
(***************************************************************************)
Sessions == {"s1", "s2"}   \* the clients, named by their session['session_id']
Clients == {"s1"}          \* those that send requests to the job pipeline
AllFormats == <<"srt", "vtt", "ass">>
AllLangs == <<"es", "fr", "de">>
FileTypes == {"audio", "video"}
JobIds == 1..(MaxJobs + 1)

\* app.py LANGUAGE_NAMES.get(lang_code, lang_code)
LANGUAGE_NAMES(code) ==
    CASE code = "es" -> "Spanish"
      [] code = "fr" -> "French"
      [] code = "de" -> "German"
      [] code = "it" -> "Italian"
      [] code = "pt" -> "Portuguese"
      [] code = "ru" -> "Russian"
      [] code = "ja" -> "Japanese"
      [] code = "ko" -> "Korean"
      [] code = "zh" -> "Chinese"
      [] code = "ar" -> "Arabic"
      [] code = "hi" -> "Hindi"
      [] code = "tr" -> "Turkish"
      [] code = "pl" -> "Polish"
      [] code = "nl" -> "Dutch"
      [] code = "sv" -> "Swedish"
      [] code = "da" -> "Danish"
      [] code = "no" -> "Norwegian"
      [] code = "fi" -> "Finnish"
      [] code = "cs" -> "Czech"
      [] code = "hu" -> "Hungarian"
      [] code = "ro" -> "Romanian"
      [] code = "bg" -> "Bulgarian"
      [] code = "hr" -> "Croatian"
      [] code = "sk" -> "Slovak"
      [] code = "sl" -> "Slovenian"
      [] code = "et" -> "Estonian"
      [] OTHER -> code

\* Keys of LANGUAGE_NAMES, in the order of the dict.
LANGUAGE_CODES ==
    <<"es", "fr", "de", "it", "pt", "ru", "ja", "ko", "zh", "ar", "hi", "tr", "pl",
      "nl", "sv", "da", "no", "fi", "cs", "hu", "ro", "bg", "hr", "sk", "sl", "et">>

\* The methods class SubtitleFormatter defines (subtitle_formats.py).
SubtitleFormatterMethods ==
    {"__init__", "format_timestamp_srt", "format_timestamp_vtt",
     "format_timestamp_ass", "to_srt", "to_vtt", "to_ass"}

Min(a, b) == IF a <= b THEN a ELSE b
Prefixes(s, n) == {SubSeq(s, 1, k) : k \in 0..Min(n, Len(s))}

\* The JSON body of a /process request: data.get('formats') and
\* data.get('target_languages'), lists without repetition. The loop treats
\* every format and every language alike, so the lists are taken in one
\* order.
FormatLists == Prefixes(AllFormats, MaxFormats)
LangLists == Prefixes(AllLangs, MaxLangs)
Formats == {AllFormats[i] : i \in 1..Min(MaxFormats, Len(AllFormats))}
Langs == {AllLangs[i] : i \in 1..Min(MaxLangs, Len(AllLangs))}

(***************************************************************************)
(* File names are sequences of tokens; an f-string is a concatenation.     *)
(***************************************************************************)
\* f"{session_id}_{stem}.{fmt}" under OUTPUT_FOLDER
OutputName(sid, stem, fmt) == <<sid, "_", stem, ".", fmt>>
\* f"{session['session_id']}_{filename}" under UPLOAD_FOLDER
UploadName(sid, filename) == <<sid, "_">> \o filename
\* The temporary audio file under one name for every session.
AudioNameShared(sid) == <<"audio", ".wav">>
\* os.path.join('outputs', f'audio_{session_id}.wav')
AudioName(sid) == <<"audio_", sid, ".wav">>
\* os.path.basename(file_path).split('_')[0]: the text before the first
\* underscore of the name (a uuid4 holds none)
PathSessionId(file_path) == file_path[1]
\* f"{stem}.{fmt}", the 'filename' of an output_files entry
DisplayName(stem, fmt) == <<stem, ".", fmt>>

\* secure_filename(file.filename) of an upload, by kind
UploadFilename(type) == IF type = "video" THEN <<"clip", ".", "mp4">>
                                          ELSE <<"talk", ".", "mp3">>

NoFile == [filename |-> <<>>, path |-> <<>>, type |-> "none"]

\* A character that is not ASCII, in a file name a client chose.
NonAscii == "<non-ascii>"

ALLOWED_EXTENSIONS(file_type) ==
    IF file_type = "audio" THEN {"mp3", "wav", "flac", "m4a", "aac"}
    ELSE IF file_type = "video" THEN {"mp4", "mkv", "mov", "avi", "webm", "flv"}
    ELSE {}

\* filename.rsplit('.', 1)[1]: the text after the last dot.
LastDot(name) ==
    IF \E k \in 1..Len(name) : name[k] = "."
    THEN CHOOSE k \in 1..Len(name) :
            name[k] = "." /\ \A m \in (k + 1)..Len(name) : name[m] # "."
    ELSE 0
AfterLastDot(name) == SubSeq(name, LastDot(name) + 1, Len(name))

\* get_file_type: the kind of an upload, from the name the client gave.
get_file_type(filename) ==
    LET extension == AfterLastDot(filename)
    IN  IF LastDot(filename) = 0 \/ Len(extension) # 1 THEN "none"
        ELSE IF extension[1] \in ALLOWED_EXTENSIONS("audio") THEN "audio"
        ELSE IF extension[1] \in ALLOWED_EXTENSIONS("video") THEN "video"
        ELSE "none"

\* werkzeug's secure_filename: the characters that are not ASCII are
\* dropped, then the dots and underscores at both ends.
RECURSIVE StripDots(_)
StripDots(name) ==
    IF name # <<>> /\ Head(name) \in {".", "_"} THEN StripDots(Tail(name))
    ELSE IF name # <<>> /\ name[Len(name)] \in {".", "_"}
         THEN StripDots(SubSeq(name, 1, Len(name) - 1))
    ELSE name
secure_filename(filename) ==
    StripDots(SelectSeq(filename, LAMBDA t : t # NonAscii))

\* transcribe_file: os.path.splitext(file_path)[1].lower() in
\* video_extensions. The base name begins with the session id, so the
\* extension is the last dot and what follows it, if there is a dot.
video_extensions == {"mp4", "mkv", "mov", "avi", "webm", "flv"}
IsVideoPath(file_path) ==
    /\ LastDot(file_path) > 1
    /\ Len(AfterLastDot(file_path)) = 1
    /\ AfterLastDot(file_path)[1] \in video_extensions

VARIABLES
    cancel_requested, \* per session: the cancellation a client asked for
    zips,           \* per session: the bundles its requests wrote
    whisper,        \* TranscriptionService: the model, its lock, the callers
    rendering,      \* SubtitleFormatter: the arguments and results of a call
    disk,           \* the entries of the two folders with their mtime
    now,            \* the clock, in hours
    sweep,          \* the run of cleanup_old_files
    scrub,          \* the call of cleanup_session_files
    translation,    \* the last call of translate_transcript and its result
    app,            \* the application that runs: "app" or "simple_app"
    formatter_api,  \* attribute names the subtitle_formatter object offers
    sess,           \* the Flask session of each client
    uploads,        \* names of the files under UPLOAD_FOLDER
    outputs,        \* names of the files under OUTPUT_FOLDER
    jobs,           \* the background threads started by /process
    njobs           \* how many of them were started

request_vars == <<cancel_requested, zips>>
service_vars == <<whisper, rendering>>
cleanup_vars == <<disk, now, sweep, scrub>>
pipeline_vars == <<translation, app, formatter_api, sess, uploads, outputs,
                   jobs, njobs>>
vars == <<request_vars, service_vars, cleanup_vars, pipeline_vars>>

(***************************************************************************)
(* Events of socketio.emit(name, payload, to=session_id).                  *)
(***************************************************************************)
\* The progress event with the translation stage reported as transcription.
ProgressUpdateMislabelled(stage, progress) ==
    [name |-> "progress_update",
     stage |-> IF stage = "translation" THEN "transcription" ELSE stage,
     progress |-> progress, files |-> <<>>]
ProgressUpdate(stage, progress) ==
    [name |-> "progress_update", stage |-> stage, progress |-> progress,
     files |-> <<>>]
ProcessingComplete(files) ==
    [name |-> "processing_complete", stage |-> "", progress |-> -1,
     files |-> files]
ProcessingError ==
    [name |-> "processing_error", stage |-> "", progress |-> -1,
     files |-> <<>>]

\* An entry of output_files.
OutputFile(sid, lang, stem, fmt) ==
    [filename |-> DisplayName(stem, fmt), path |-> OutputName(sid, lang, fmt),
     language |-> lang, format |-> fmt]

(***************************************************************************)
(* Arithmetic on Python floats (IEEE binary64, round to nearest even),     *)
(* computed on integers.                                                   *)
(***************************************************************************)
RECURSIVE Pow2(_)
Pow2(n) == IF n = 0 THEN 1 ELSE 2 * Pow2(n - 1)

RECURSIVE Pow2Mod(_, _)
Pow2Mod(n, m) == IF n = 0 THEN 1 % m ELSE (2 * Pow2Mod(n - 1, m)) % m

\* floor(log2(n)) of an integer n >= 1.
RECURSIVE FloorLog2(_)
FloorLog2(n) == IF n < 2 THEN 0 ELSE 1 + FloorLog2(n \div 2)

IsPow2(n) == Pow2(FloorLog2(n)) = n

\* r <= mult * 2^n, for an exponent n of either sign.
AtMostScaled(r, mult, n) ==
    IF n >= 0 THEN r <= mult * Pow2(n)
    ELSE IF n < -7 THEN FALSE
    ELSE r * Pow2(-n) <= mult

\* The binary exponent of the float p/100, p >= 1: floor(log2(p/100)).
RECURSIVE HundredthsExponent(_)
HundredthsExponent(p) == IF p >= 100 THEN FloorLog2(p \div 100)
                         ELSE HundredthsExponent(2 * p) - 1

\* int(q * 100) for the float q nearest to p/100, p a whole number: the
\* double is m * 2^(X-52) with m = round(p * 2^(50-X) / 25); when it is
\* below p/100 the product is p only if its rounding reaches p.
TruncatedPercent(p) ==
    LET X == HundredthsExponent(p)
        r == ((p % 25) * Pow2Mod(50 - X, 25)) % 25
        n == FloorLog2(p) - X - (IF IsPow2(p) THEN 4 ELSE 3)
    IN  IF p = 0 \/ r = 0 \/ r >= 13 THEN p
        ELSE IF AtMostScaled(r, 1, n) THEN p
        ELSE p - 1

\* int((current_task / total_tasks) * 100): when 100 * current_task is not
\* a multiple of total_tasks the product is far from a whole number and the
\* truncation gives the floor of the exact quotient.
Progress(current_task, total_tasks) ==
    IF (100 * current_task) % total_tasks # 0
    THEN (100 * current_task) \div total_tasks
    ELSE TruncatedPercent((100 * current_task) \div total_tasks)

IdleJob ==
    [pc |-> "idle", sid |-> "", file_info |-> NoFile,
     formats |-> <<>>, targets |-> <<>>,
     fi |-> 0, li |-> 0,
     output_files |-> <<>>, total_tasks |-> 0, current_task |-> 0,
     progress |-> 0, events |-> <<>>,
     exc |-> "", faults |-> {}, wrote |-> {}]

\* session['results'] of simple_app.py; has_files and has_error tell which
\* keys the dict holds.
NoResults == [present |-> FALSE, has_files |-> FALSE, files |-> <<>>,
              has_error |-> FALSE, processing_complete |-> FALSE]
ResultsOf(files) == [present |-> TRUE, has_files |-> TRUE, files |-> files,
                     has_error |-> FALSE, processing_complete |-> TRUE]
ErrorResults == [present |-> TRUE, has_files |-> FALSE, files |-> <<>>,
                 has_error |-> TRUE, processing_complete |-> TRUE]

\* A session cookie with no key set ("" and NoFile stand for an absent key).
EmptySession == [session_id |-> "", uploaded_file |-> NoFile,
                 has_output |-> FALSE, output_files |-> <<>>,
                 processed |-> FALSE, results |-> NoResults]

\* The answer of a request handler.
Response(status, file) == [status |-> status, file |-> file]

\* A fault a collaborator raised in a job: what failed, for which unit.
\* (An AttributeError is raised by the interpreter, not by a collaborator:
\* it is the job's exc and no fault.)
Fault(what, fmt, lang) == <<what, fmt, lang>>

Apps == {"app", "simple_app"}

\* No call of translate_transcript yet.
NoCall == [called |-> FALSE, segments |-> [type |-> "list", value |-> <<>>],
           target_language |-> "", failing |-> {},
           result |-> [type |-> "list", value |-> <<>>]]

\* utils/cleanup.py: FileCleanupService.__init__
max_age_hours == 24

\* The clock when the process starts; the folders outlive the process.
StartClock == max_age_hours + 1

\* cleanup_old_files is not running: pc is its position, directory the
\* folder it is in, todo what is left of the listing, removed and failed
\* the entries os.remove was called for, unread the entries
\* os.path.getmtime raised for, unlisted the folders os.listdir raised for,
\* before the folders as they were when it started.
NoSweep == [pc |-> "idle", directory |-> "", cutoff_time |-> 0, todo |-> <<>>,
            removed |-> {}, failed |-> {}, unread |-> {}, unlisted |-> {},
            before |-> {}]
\* cleanup_session_files has not been called.
NoScrub == [called |-> FALSE, session_id |-> "", removed |-> {},
            failed |-> {}, unlisted |-> {}]

\* Nobody has asked for a cancellation.
NoRequest == [requested |-> FALSE, job |-> 0, at |-> IdleJob]

\* TranscriptionService.__init__: no model yet, the lock free (0 stands for
\* None and for no holder); no thread is in get_whisper_model.
\* built counts the models constructed, raised the constructions that failed.
Callers == 1..MaxCallers
NoModel == [model |-> 0, model_lock |-> 0, built |-> 0, raised |-> 0,
            pc |-> [t \in Callers |-> "idle"],
            got |-> [t \in Callers |-> 0]]
\* No call of the formatter.
\* The arguments given to the SubtitleFormatter (a segment list, or a time of
\* millis/1000 seconds), the methods called so far, and what each returned.
NoRendering == [given |-> "nothing", segments |-> <<>>, millis |-> 0,
                called |-> {},
                srt |-> <<>>, vtt |-> <<>>, ass |-> <<>>,
                stamp_srt |-> <<>>, stamp_vtt |-> <<>>, stamp_ass |-> <<>>]
ServicesAtRest ==
    /\ whisper = NoModel
    /\ rendering = NoRendering

\* The folders as far as the job threads are concerned: no clock runs and
\* no cleanup is called.
CleanupAtRest ==
    /\ disk = {}
    /\ now = StartClock
    /\ sweep = NoSweep
    /\ scrub = NoScrub

InitWith(api) ==
    /\ cancel_requested = [c \in Sessions |-> NoRequest]
    /\ zips = [c \in Sessions |-> {}]
    /\ ServicesAtRest
    /\ CleanupAtRest
    /\ translation = NoCall
    /\ app \in Apps
    /\ formatter_api = api
    /\ sess = [s \in Sessions |-> EmptySession]
    /\ uploads = {}
    /\ outputs = {}
    /\ jobs = [j \in JobIds |-> IdleJob]
    /\ njobs = 0

\* The state after the module-level construction of app.py or simple_app.py.
Init == InitWith(SubtitleFormatterMethods)

UpdateJob(j, r) == jobs' = [jobs EXCEPT ![j] = r]
Emit(job, ev) == Append(job.events, ev)

(***************************************************************************)
(* app.py: the request handlers.                                           *)
(***************************************************************************)
\* upload_file: the client of session c uploads a file of an allowed type.
Upload(c, type) ==
    LET filename == UploadFilename(type)
        path == UploadName(c, filename)
    IN  /\ uploads' = uploads \cup {path}
        /\ sess' = [sess EXCEPT ![c] =
                      [@ EXCEPT !.session_id = c,
                                !.uploaded_file =
                                    [filename |-> filename, path |-> path,
                                     type |-> type]]]
        /\ UNCHANGED <<request_vars, service_vars, cleanup_vars, translation, app, formatter_api, outputs, jobs, njobs>>

\* The answer of process_file: 400 without an upload, else 200 after the
\* thread was started. Nothing else of the session is looked at.
ProcessAnswer(c) ==
    IF sess[c].uploaded_file = NoFile THEN Response(400, <<>>)
    ELSE Response(200, <<>>)

Units(formats, targets) == Len(formats) * (1 + Len(targets))
UnitsRequested ==
    LET RECURSIVE Sum(_)
        Sum(n) == IF n = 0 THEN 0
                  ELSE Units(jobs[n].formats, jobs[n].targets) + Sum(n - 1)
    IN  Sum(njobs)

\* process_file of either application, the branch that starts the
\* background thread: the thread of app.py begins with an event, the thread
\* of simple_app.py with transcribe_file. max_jobs and max_units bound the
\* submissions of one behaviour.
ProcessWithin(c, formats, targets, max_jobs, max_units) ==
    /\ ProcessAnswer(c).status = 200
    /\ njobs < max_jobs
    /\ UnitsRequested + Units(formats, targets) <= max_units
    /\ njobs' = njobs + 1
    /\ UpdateJob(njobs + 1,
           [IdleJob EXCEPT !.pc = IF app = "app" THEN "start"
                                 ELSE "transcribe_file",
                           !.sid = sess[c].session_id,
                           !.file_info = sess[c].uploaded_file,
                           !.formats = formats,
                           !.targets = targets])
    /\ UNCHANGED <<request_vars, service_vars, cleanup_vars, translation, app, formatter_api, sess, uploads, outputs>>

Running(j) == jobs[j].pc \notin {"idle", "done", "crashed"}

\* A client that resubmits after the terminal event of its last job.
Process(c, formats, targets) ==
    /\ \A j \in JobIds : ~Running(j)
    /\ ProcessWithin(c, formats, targets, MaxJobs, MaxUnits)

\* Collaborator calls that have raised so far; a call may raise while
\* fewer than MaxFaults have.
FaultCount ==
    LET RECURSIVE Sum(_)
        Sum(n) == IF n = 0 THEN 0
                  ELSE Cardinality(jobs[n].faults) + Sum(n - 1)
    IN  Sum(njobs)
MayRaise == FaultCount < MaxFaults
Outcomes(ok, raising) == IF MayRaise THEN ok \cup raising ELSE ok

(***************************************************************************)
(* app.py: process_background, one action per step of the thread.          *)
(* ExtractOrClean and TranscribeAudio are transcribe_file, which the        *)
(* thread of simple_app.py calls too.                                       *)
(***************************************************************************)
\* lines 168-172: the first progress event.
EmitStart(j) ==
    /\ app = "app"
    /\ jobs[j].pc = "start"
    /\ UpdateJob(j, [jobs[j] EXCEPT
            !.events = Emit(jobs[j], ProgressUpdate("transcription", 0)),
            !.pc = "transcribe_file"])
    /\ UNCHANGED <<request_vars, service_vars, cleanup_vars, translation, app, formatter_api, sess, uploads, outputs, njobs>>

\* transcribe_file with a failure of extract_audio swallowed: the thread
\* goes on to transcribe_audio.
ExtractOrCleanSwallowing(j) ==
    /\ jobs[j].pc = "transcribe_file"
    /\ IF IsVideoPath(jobs[j].file_info.path)
       THEN \E ok \in Outcomes({TRUE}, {FALSE}) :
              IF ok
              THEN /\ outputs' = outputs \cup {AudioName(PathSessionId(jobs[j].file_info.path))}
                   /\ UpdateJob(j, [jobs[j] EXCEPT
                          !.pc = "transcribe_audio",
                          !.wrote = @ \cup {AudioName(PathSessionId(jobs[j].file_info.path))}])
              ELSE /\ outputs' = outputs
                   /\ UpdateJob(j, [jobs[j] EXCEPT
                          !.pc = "transcribe_audio",
                          !.faults = @ \cup {Fault("extract_audio", "", "")}])
       ELSE /\ outputs' = outputs
            /\ UpdateJob(j, [jobs[j] EXCEPT !.pc = "transcribe_audio"])
    /\ UNCHANGED <<request_vars, service_vars, cleanup_vars, translation, app, formatter_api, sess, uploads, njobs>>

\* transcribe_file up to the call of transcribe_audio: a video goes through
\* extract_audio (ffmpeg writes audio_<sid>.wav or raises), an audio file
\* through clean_audio, which returns the path it was given.
ExtractOrClean(j) ==
    /\ jobs[j].pc = "transcribe_file"
    /\ IF IsVideoPath(jobs[j].file_info.path)
       THEN \E ok \in Outcomes({TRUE}, {FALSE}) :
              IF ok
              THEN /\ outputs' = outputs \cup {AudioName(PathSessionId(jobs[j].file_info.path))}
                   /\ UpdateJob(j, [jobs[j] EXCEPT
                          !.pc = "transcribe_audio",
                          !.wrote = @ \cup {AudioName(PathSessionId(jobs[j].file_info.path))}])
              ELSE /\ outputs' = outputs
                   /\ UpdateJob(j, [jobs[j] EXCEPT
                          !.pc = "except",
                          !.exc = "extract_audio",
                          !.faults = @ \cup {Fault("extract_audio", "", "")}])
       ELSE /\ outputs' = outputs
            /\ UpdateJob(j, [jobs[j] EXCEPT !.pc = "transcribe_audio"])
    /\ UNCHANGED <<request_vars, service_vars, cleanup_vars, translation, app, formatter_api, sess, uploads, njobs>>

\* transcribe_file from transcribe_audio on: whisper returns the result or
\* raises; after a result the extracted audio of a video is removed.
TranscribeAudio(j) ==
    /\ jobs[j].pc = "transcribe_audio"
    /\ \E ok \in Outcomes({TRUE}, {FALSE}) :
         IF ok
         THEN /\ outputs' = IF IsVideoPath(jobs[j].file_info.path)
                            THEN outputs \ {AudioName(jobs[j].sid)}
                            ELSE outputs
              /\ UpdateJob(j, [jobs[j] EXCEPT !.pc = "transcribed"])
         ELSE /\ outputs' = outputs
              /\ UpdateJob(j, [jobs[j] EXCEPT
                     !.pc = "except",
                     !.exc = "transcribe_audio",
                     !.faults = @ \cup {Fault("transcribe_audio", "", "")}])
    /\ UNCHANGED <<request_vars, service_vars, cleanup_vars, translation, app, formatter_api, sess, uploads, njobs>>

\* The two for statements (lines 198 and 223): where the thread is after
\* the pass for formats[fi] and, with li > 0, targets[li]; li = 0 is the
\* original-language part of the pass, fi = 0 the point before the loop.
\* The result is <<pc, fi, li>>.
LoopNext(job, fi, li) ==
    IF fi >= 1 /\ li < Len(job.targets) THEN <<"lang_loop", fi, li + 1>>
    ELSE IF fi < Len(job.formats) THEN <<"format_loop", fi + 1, 0>>
    ELSE <<"store_results", fi, li>>

\* lines 181-196: two progress events and the loop's counters.
EmitTranscribed(j) ==
    /\ app = "app"
    /\ jobs[j].pc = "transcribed"
    /\ LET to == LoopNext(jobs[j], 0, 0)
       IN  UpdateJob(j, [jobs[j] EXCEPT
            !.events = @ \o <<ProgressUpdate("transcription", 100),
                              ProgressUpdate("subtitle_generation", 0)>>,
            !.output_files = <<>>,
            !.total_tasks = Len(jobs[j].formats) * (1 + Len(jobs[j].targets)),
            !.current_task = 0,
            !.pc = to[1], !.fi = to[2], !.li = to[3]])
    /\ UNCHANGED <<request_vars, service_vars, cleanup_vars, translation, app, formatter_api, sess, uploads, outputs, njobs>>

\* subtitle_formatter.to_format(...): Python looks the attribute up on the
\* object; a name the class does not define raises AttributeError.
HasMethod(name) == name \in formatter_api

\* What the call of to_format and the write of its result can do:
\* AttributeError at the call, an exception inside the renderer, open()
\* raising before the file exists, f.write() raising after open() created
\* the file, or success.
UnitOutcomes ==
    IF HasMethod("to_format")
    THEN Outcomes({"ok"}, {"render_error", "open_error", "write_error"})
    ELSE {"attribute_error"}

\* translate_segments never raises: when the translator raises it hands
\* the segments back untranslated ("translate_error") and the pass goes on
\* to render and write them.
TranslatedUnitOutcomes ==
    IF HasMethod("to_format")
    THEN Outcomes({"ok"}, {"translate_error", "render_error", "open_error",
                           "write_error"})
    ELSE {"attribute_error"}

\* The outcomes after which the pass has rendered and written its file.
Produced(outcome) == outcome \in {"ok", "translate_error"}

\* The files under OUTPUT_FOLDER after open(path, 'w') / f.write(content).
AfterWrite(path, outcome) ==
    IF Produced(outcome) \/ outcome = "write_error"
    THEN outputs \cup {path} ELSE outputs

\* lines 198-220: the pass of the outer loop for formats[fi], up to the
\* inner loop: render and write the original-language subtitle. Any
\* exception leaves the loop for the handler of line 270.
FormatOriginal(j) ==
    /\ app = "app"
    /\ jobs[j].pc = "format_loop"
    /\ LET job == jobs[j]
           fmt == job.formats[job.fi]
           path == OutputName(job.sid, "original", fmt)
           task == job.current_task + 1
           progress == Progress(task, job.total_tasks)
           to == LoopNext(job, job.fi, 0)
       IN  \E outcome \in UnitOutcomes :
             /\ outputs' = AfterWrite(path, outcome)
             /\ IF outcome = "ok"
                THEN UpdateJob(j, [job EXCEPT
                       !.output_files = Append(@,
                           OutputFile(job.sid, "original", "original", fmt)),
                       !.wrote = @ \cup {path},
                       !.current_task = task,
                       !.progress = progress,
                       !.events = Emit(job,
                           ProgressUpdate("subtitle_generation", progress)),
                       !.pc = to[1], !.fi = to[2], !.li = to[3]])
                ELSE UpdateJob(j, [job EXCEPT
                       !.wrote = IF outcome = "write_error"
                                 THEN @ \cup {path} ELSE @,
                       !.faults = IF outcome = "attribute_error" THEN @
                                  ELSE @ \cup {Fault(outcome, fmt, "original")},
                       !.exc = outcome,
                       !.pc = "except"])
    /\ UNCHANGED <<request_vars, service_vars, cleanup_vars, translation, app, formatter_api, sess, uploads, njobs>>

\* The pass of the inner loop without its try: an exception leaves for the
\* handler of the thread.
TranslateUnitAborting(j) ==
    /\ app = "app"
    /\ jobs[j].pc = "lang_loop"
    /\ LET job == jobs[j]
           fmt == job.formats[job.fi]
           lang == job.targets[job.li]
           path == OutputName(job.sid, lang, fmt)
           task == job.current_task + 1
           progress == Progress(task, job.total_tasks)
           to == LoopNext(job, job.fi, job.li)
       IN  \E outcome \in TranslatedUnitOutcomes :
             /\ outputs' = AfterWrite(path, outcome)
             /\ IF Produced(outcome)
                THEN UpdateJob(j, [job EXCEPT
                       !.output_files =
                           Append(@, OutputFile(job.sid, lang,
                                                LANGUAGE_NAMES(lang), fmt)),
                       !.wrote = @ \cup {path},
                       !.faults = IF outcome = "ok" THEN @
                                  ELSE @ \cup {Fault(outcome, fmt, lang)},
                       !.current_task = task,
                       !.progress = progress,
                       !.events = @ \o
                           <<ProgressUpdate("translation", job.progress),
                             ProgressUpdate("translation", progress)>>,
                       !.pc = to[1], !.fi = to[2], !.li = to[3]])
                ELSE UpdateJob(j, [job EXCEPT
                       !.wrote = IF outcome = "write_error"
                                 THEN @ \cup {path} ELSE @,
                       !.faults = @ \cup {Fault(outcome, fmt, lang)},
                       !.events = Emit(job,
                           ProgressUpdate("translation", job.progress)),
                       !.exc = outcome,
                       !.pc = "except"])
    /\ UNCHANGED <<request_vars, service_vars, cleanup_vars, translation, app, formatter_api, sess, uploads, njobs>>

\* lines 223-255: the pass of the inner loop for targets[li]. The try of
\* line 224 covers the translation, the rendering and the write; its
\* handler logs, and the pass goes on with the counters and the event.
TranslateUnit(j) ==
    /\ app = "app"
    /\ jobs[j].pc = "lang_loop"
    /\ LET job == jobs[j]
           fmt == job.formats[job.fi]
           lang == job.targets[job.li]
           path == OutputName(job.sid, lang, fmt)
           task == job.current_task + 1
           progress == Progress(task, job.total_tasks)
           to == LoopNext(job, job.fi, job.li)
       IN  \E outcome \in TranslatedUnitOutcomes :
             /\ outputs' = AfterWrite(path, outcome)
             /\ UpdateJob(j, [job EXCEPT
                   !.output_files =
                       IF Produced(outcome)
                       THEN Append(@, OutputFile(job.sid, lang,
                                                 LANGUAGE_NAMES(lang), fmt))
                       ELSE @,
                   !.wrote = IF Produced(outcome) \/ outcome = "write_error"
                             THEN @ \cup {path} ELSE @,
                   !.faults = IF outcome = "ok" THEN @
                              ELSE @ \cup {Fault(outcome, fmt, lang)},
                   !.current_task = task,
                   !.progress = progress,
                   !.events = @ \o
                       <<ProgressUpdate("translation", job.progress),
                         ProgressUpdate("translation", progress)>>,
                   !.pc = to[1], !.fi = to[2], !.li = to[3]])
    /\ UNCHANGED <<request_vars, service_vars, cleanup_vars, translation, app, formatter_api, sess, uploads, njobs>>

\* The completed event emitted before the statements that may raise: a
\* failure of the store or of url_for then reaches the handler after it.
PublishCompletingFirst(j) ==
    /\ app = "app"
    /\ jobs[j].pc = "store_results"
    /\ \E outcome \in Outcomes({"ok"}, {"session_error", "url_for_error"}) :
         LET job == jobs[j]
             events == Emit(job, ProcessingComplete(job.output_files))
         IN  /\ sess' = IF outcome = "session_error" THEN sess
                        ELSE [sess EXCEPT ![job.sid] =
                                [@ EXCEPT !.has_output = TRUE,
                                          !.output_files = job.output_files,
                                          !.processed = TRUE]]
             /\ IF outcome = "ok"
                THEN UpdateJob(j, [job EXCEPT !.events = events,
                                              !.pc = "done"])
                ELSE UpdateJob(j, [job EXCEPT
                        !.events = events,
                        !.faults = @ \cup {Fault(outcome, "", "")},
                        !.exc = outcome,
                        !.pc = "except"])
    /\ UNCHANGED <<request_vars, service_vars, cleanup_vars, translation, app, formatter_api, uploads, outputs, njobs>>

\* lines 258-266: the session proxy and url_for are used from the thread,
\* where they work or raise; then the completed event.
Publish(j) ==
    /\ app = "app"
    /\ jobs[j].pc = "store_results"
    /\ \E outcome \in Outcomes({"ok"}, {"session_error", "url_for_error"}) :
         LET job == jobs[j]
         IN  /\ sess' = IF outcome = "session_error" THEN sess
                        ELSE [sess EXCEPT ![job.sid] =
                                [@ EXCEPT !.has_output = TRUE,
                                          !.output_files = job.output_files,
                                          !.processed = TRUE]]
             /\ IF outcome = "ok"
                THEN UpdateJob(j, [job EXCEPT
                        !.events = Emit(job, ProcessingComplete(job.output_files)),
                        !.pc = "done"])
                ELSE UpdateJob(j, [job EXCEPT
                        !.faults = @ \cup {Fault(outcome, "", "")},
                        !.exc = outcome,
                        !.pc = "except"])
    /\ UNCHANGED <<request_vars, service_vars, cleanup_vars, translation, app, formatter_api, uploads, outputs, njobs>>

\* lines 270-274: the handler of the thread's try.
HandleException(j) ==
    /\ app = "app"
    /\ jobs[j].pc = "except"
    /\ UpdateJob(j, [jobs[j] EXCEPT
            !.events = Emit(jobs[j], ProcessingError),
            !.pc = "done"])
    /\ UNCHANGED <<request_vars, service_vars, cleanup_vars, translation, app, formatter_api, sess, uploads, outputs, njobs>>

(***************************************************************************)
(* simple_app.py: process_background. It emits no event; it reads          *)
(* session['session_id'] for every file name and stores its outcome in     *)
(* session['results'], both from the thread.                               *)
(***************************************************************************)
\* lines 151-153.
SimpleBeginLoop(j) ==
    /\ app = "simple_app"
    /\ jobs[j].pc = "transcribed"
    /\ LET to == LoopNext(jobs[j], 0, 0)
       IN  UpdateJob(j, [jobs[j] EXCEPT
            !.output_files = <<>>,
            !.pc = to[1], !.fi = to[2], !.li = to[3]])
    /\ UNCHANGED <<request_vars, service_vars, cleanup_vars, translation, app, formatter_api, sess, uploads, outputs, njobs>>

\* As UnitOutcomes, with the read of the session proxy between the
\* rendering and open().
SimpleUnitOutcomes ==
    IF HasMethod("to_format")
    THEN Outcomes({"ok"}, {"render_error", "session_error", "open_error",
                           "write_error"})
    ELSE {"attribute_error"}

SimpleTranslatedUnitOutcomes ==
    IF HasMethod("to_format")
    THEN Outcomes({"ok"}, {"translate_error", "render_error", "session_error",
                           "open_error", "write_error"})
    ELSE {"attribute_error"}

\* lines 155-169.
SimpleFormatOriginal(j) ==
    /\ app = "simple_app"
    /\ jobs[j].pc = "format_loop"
    /\ LET job == jobs[j]
           fmt == job.formats[job.fi]
           path == OutputName(job.sid, "original", fmt)
           to == LoopNext(job, job.fi, 0)
       IN  \E outcome \in SimpleUnitOutcomes :
             /\ outputs' = AfterWrite(path, outcome)
             /\ IF outcome = "ok"
                THEN UpdateJob(j, [job EXCEPT
                       !.output_files = Append(@,
                           OutputFile(job.sid, "original", "original", fmt)),
                       !.wrote = @ \cup {path},
                       !.pc = to[1], !.fi = to[2], !.li = to[3]])
                ELSE UpdateJob(j, [job EXCEPT
                       !.wrote = IF outcome = "write_error"
                                 THEN @ \cup {path} ELSE @,
                       !.faults = IF outcome = "attribute_error" THEN @
                                  ELSE @ \cup {Fault(outcome, fmt, "original")},
                       !.exc = outcome,
                       !.pc = "except"])
    /\ UNCHANGED <<request_vars, service_vars, cleanup_vars, translation, app, formatter_api, sess, uploads, njobs>>

\* lines 172-190: the try covers the whole pass; its handler logs.
SimpleTranslateUnit(j) ==
    /\ app = "simple_app"
    /\ jobs[j].pc = "lang_loop"
    /\ LET job == jobs[j]
           fmt == job.formats[job.fi]
           lang == job.targets[job.li]
           path == OutputName(job.sid, lang, fmt)
           to == LoopNext(job, job.fi, job.li)
       IN  \E outcome \in SimpleTranslatedUnitOutcomes :
             /\ outputs' = AfterWrite(path, outcome)
             /\ UpdateJob(j, [job EXCEPT
                   !.output_files =
                       IF Produced(outcome)
                       THEN Append(@, OutputFile(job.sid, lang,
                                                 LANGUAGE_NAMES(lang), fmt))
                       ELSE @,
                   !.wrote = IF Produced(outcome) \/ outcome = "write_error"
                             THEN @ \cup {path} ELSE @,
                   !.faults = IF outcome = "ok" THEN @
                              ELSE @ \cup {Fault(outcome, fmt, lang)},
                   !.pc = to[1], !.fi = to[2], !.li = to[3]])
    /\ UNCHANGED <<request_vars, service_vars, cleanup_vars, translation, app, formatter_api, sess, uploads, njobs>>

\* lines 192-199: session['results'] = {...} from the thread.
SimplePublish(j) ==
    /\ app = "simple_app"
    /\ jobs[j].pc = "store_results"
    /\ \E outcome \in Outcomes({"ok"}, {"session_error"}) :
         LET job == jobs[j]
         IN  IF outcome = "ok"
             THEN /\ sess' = [sess EXCEPT ![job.sid].results =
                                  ResultsOf(job.output_files)]
                  /\ UpdateJob(j, [job EXCEPT !.pc = "done"])
             ELSE /\ sess' = sess
                  /\ UpdateJob(j, [job EXCEPT
                         !.faults = @ \cup {Fault(outcome, "", "")},
                         !.exc = outcome,
                         !.pc = "except"])
    /\ UNCHANGED <<request_vars, service_vars, cleanup_vars, translation, app, formatter_api, uploads, outputs, njobs>>

\* lines 201-206: the handler of the thread's try stores the error in the
\* session; an exception raised here ends the thread.
SimpleHandleException(j) ==
    /\ app = "simple_app"
    /\ jobs[j].pc = "except"
    /\ \E outcome \in Outcomes({"ok"}, {"session_error"}) :
         LET job == jobs[j]
         IN  IF outcome = "ok"
             THEN /\ sess' = [sess EXCEPT ![job.sid].results = ErrorResults]
                  /\ UpdateJob(j, [job EXCEPT !.pc = "done"])
             ELSE /\ sess' = sess
                  /\ UpdateJob(j, [job EXCEPT
                         !.faults = @ \cup {Fault("handler_session_error", "", "")},
                         !.pc = "crashed"])
    /\ UNCHANGED <<request_vars, service_vars, cleanup_vars, translation, app, formatter_api, uploads, outputs, njobs>>

\* The answer of get_status (simple_app.py): complete, success.
StatusAnswer(c) ==
    LET r == sess[c].results
    IN  IF r.present /\ r.processing_complete
        THEN [complete |-> TRUE, success |-> ~r.has_error]
        ELSE [complete |-> FALSE, success |-> FALSE]

\* The file names a client asks /download/<filename> for.
DownloadNames ==
    {DisplayName(stem, AllFormats[1]) :
        stem \in {"original", AllLangs[1], LANGUAGE_NAMES(AllLangs[1])}}
    \cup {UploadFilename(t) : t \in FileTypes}

\* The answer of download_file (app.py): 403 without a session id; the file
\* <session_id>_<filename> of OUTPUT_FOLDER when it exists; else the
\* uploaded media when the name is its name; else 404.
DownloadAnswer(c, filename) ==
    LET session_id == sess[c].session_id
        filepath == <<session_id, "_">> \o filename
        up == sess[c].uploaded_file
    IN  IF session_id = "" THEN Response(403, <<>>)
        ELSE IF filepath \in outputs THEN Response(200, filepath)
        ELSE IF up # NoFile /\ up.path \in uploads /\ filename = up.filename
        THEN Response(200, up.path)
        ELSE Response(404, <<>>)

\* download_file reads the session and the two folders and changes nothing.
Download(c, filename) ==
    /\ app = "app"
    /\ DownloadAnswer(c, filename).status \in {200, 403, 404}
    /\ UNCHANGED vars

\* The file names a client of simple_app.py asks for: basenames of output
\* paths and a display name.
SimpleDownloadNames ==
    {OutputName(c, stem, AllFormats[1]) :
        c \in Clients, stem \in {"original", AllLangs[1]}}
    \cup {DisplayName("original", AllFormats[1])}

\* The answer of download_file (simple_app.py): 404 without results; 500
\* when the results hold no 'files' key or send_file finds no file; the
\* first listed file whose basename is the name; else 404.
SimpleDownloadAnswer(c, filename) ==
    LET r == sess[c].results
        hits == {i \in 1..Len(r.files) : r.files[i].path = filename}
    IN  IF ~r.present THEN Response(404, <<>>)
        ELSE IF ~r.has_files THEN Response(500, <<>>)
        ELSE IF hits = {} THEN Response(404, <<>>)
        ELSE LET first == CHOOSE i \in hits : \A k \in hits : i <= k
                 path == r.files[first].path
             IN  IF path \in outputs THEN Response(200, path)
                 ELSE Response(500, <<>>)

SimpleDownload(c, filename) ==
    /\ app = "simple_app"
    /\ SimpleDownloadAnswer(c, filename).status \in {200, 404, 500}
    /\ UNCHANGED vars

(***************************************************************************)
(* The specifications.                                                     *)
(***************************************************************************)
Read ==
    \/ \E c \in Clients, n \in DownloadNames : Download(c, n)
    \/ \E c \in Clients, n \in SimpleDownloadNames : SimpleDownload(c, n)

\* A client uploads one file.
FirstUpload == \E c \in Clients, t \in FileTypes :
                  sess[c].uploaded_file = NoFile /\ Upload(c, t)

Request ==
    \/ FirstUpload
    \/ \E c \in Clients, f \in FormatLists, t \in LangLists : Process(c, f, t)
    \/ Read

\* The steps of process_background that the code of src/ reaches.
Step(j) ==
    \/ EmitStart(j)
    \/ ExtractOrClean(j)
    \/ TranscribeAudio(j)
    \/ EmitTranscribed(j)
    \/ FormatOriginal(j)
    \/ Publish(j)
    \/ HandleException(j)
    \/ SimpleBeginLoop(j)
    \/ SimpleFormatOriginal(j)
    \/ SimplePublish(j)
    \/ SimpleHandleException(j)

Next == Request \/ \E j \in JobIds : Step(j)

\* The program as src/ has it: SubtitleFormatter defines no to_format.
Spec == Init /\ [][Next]_vars

\* The program with the formatter's to_format taken from the specification
\* (section 4.2, render(segments, format)).
InitRender == InitWith(SubtitleFormatterMethods \cup {"to_format"})
NextRender ==
    \/ Next
    \/ \E j \in JobIds : TranslateUnit(j)
    \/ \E j \in JobIds : SimpleTranslateUnit(j)
SpecRender == InitRender /\ [][NextRender]_vars

\* The program of src/ with clients that do not wait for the terminal event:
\* one more /process submission than MaxJobs, of small requests.
ProcessOverlapping(c, formats, targets) ==
    ProcessWithin(c, formats, targets, MaxJobs + 1, MaxOverlapUnits)
NextOverlap ==
    \/ FirstUpload
    \/ \E c \in Clients, f \in FormatLists, t \in LangLists :
          ProcessOverlapping(c, f, t)
    \/ Read
    \/ \E j \in JobIds : Step(j)
SpecOverlap == Init /\ [][NextOverlap]_vars

(***************************************************************************)
(* utils/transcribe.py: translate_transcript, as a function of its         *)
(* arguments and of the calls of the translator that raise.                *)
(***************************************************************************)
\* Python values: a list of segments, or the dict transcribe_audio returns.
PyList(items) == [type |-> "list", value |-> items]
PyDict(rec) == [type |-> "dict", value |-> rec]
PyLen(v) == IF v.type = "list" THEN Len(v.value)
            ELSE Cardinality(DOMAIN v.value)

Texts == <<"hello", "world">>
Segment(i) == [start |-> i - 1, end |-> i, text |-> Texts[(i % 2) + 1]]
Transcript(n) == [i \in 1..n |-> Segment(i)]

\* The dict transcribe_audio returns (language_probability in percent).
TranscriptionResult(n) ==
    PyDict([language |-> "en", language_probability |-> 99, duration |-> n,
            segments |-> Transcript(n)])

\* translator.translate(text, dest=target_language).text
Translated(text, target_language) == <<target_language, text>>

batch_size == 10

\* The first return inside the outer for: only the first batch is handled.
translate_transcript_first_batch(segments, target_language, failing) ==
    IF segments.type # "list" THEN segments
    ELSE PyList([i \in 1..Min(batch_size, Len(segments.value)) |->
                    IF i \in failing THEN segments.value[i]
                    ELSE [start |-> segments.value[i].start,
                          end |-> segments.value[i].end,
                          text |-> Translated(segments.value[i].text,
                                              target_language)]])

\* failing: the positions of the segments whose translator call raises.
\* The outer for walks range(0, len(segments), batch_size), the inner one
\* the batch segments[i:i + batch_size]; a segment whose call raises is
\* appended as it is. Slicing a dict raises, and the outer handler returns
\* the argument.
translate_transcript(segments, target_language, failing) ==
    LET RECURSIVE InnerFor(_, _, _)
        InnerFor(batch, i, translated_segments) ==
            IF batch = <<>> THEN translated_segments
            ELSE LET segment == Head(batch)
                     appended ==
                         IF (i + 1) \in failing THEN segment
                         ELSE [start |-> segment.start, end |-> segment.end,
                               text |-> Translated(segment.text,
                                                   target_language)]
                 IN  InnerFor(Tail(batch), i + 1,
                              Append(translated_segments, appended))
        RECURSIVE OuterFor(_, _)
        OuterFor(i, translated_segments) ==
            IF i >= Len(segments.value) THEN translated_segments
            ELSE LET batch == SubSeq(segments.value, i + 1,
                                     Min(i + batch_size, Len(segments.value)))
                 IN  OuterFor(i + batch_size,
                              InnerFor(batch, i, translated_segments))
    IN  IF segments.type # "list" THEN segments
        ELSE PyList(OuterFor(0, <<>>))

\* The call with the times of the returned segments not carried over.
TranslateTranscriptUntimed ==
    /\ ~translation.called
    /\ LET result == translate_transcript(translation.segments,
                                          translation.target_language,
                                          translation.failing)
       IN  translation' =
               [translation EXCEPT
                  !.called = TRUE,
                  !.result =
                      IF result.type # "list" THEN result
                      ELSE PyList([i \in 1..Len(result.value) |->
                                      [result.value[i] EXCEPT !.start = 0,
                                                              !.end = 0]])]
    /\ UNCHANGED <<request_vars, service_vars, cleanup_vars, app, formatter_api, sess,
                   uploads, outputs, jobs, njobs>>
\* The call of translate_transcript (or of its alias translate_segments)
\* on the arguments at hand.
TranslateTranscript ==
    /\ ~translation.called
    /\ translation' =
           [translation EXCEPT
              !.called = TRUE,
              !.result = translate_transcript(translation.segments,
                                              translation.target_language,
                                              translation.failing)]
    /\ UNCHANGED <<request_vars, service_vars, cleanup_vars, app, formatter_api, sess,
                   uploads, outputs, jobs, njobs>>

\* The arguments of the calls: transcripts of up to MaxSegments segments
\* and the result of transcribe_file as app.py hands it over.
TranslateInputs ==
    {PyList(Transcript(n)) : n \in 0..MaxSegments}
    \cup {TranscriptionResult(1)}

\* The arguments of one call and the translator calls that will raise.
InitTranslate ==
    /\ \E segments \in TranslateInputs, target_language \in Langs :
         \E failing \in SUBSET (1..PyLen(segments)) :
            translation = [NoCall EXCEPT
                             !.segments = segments,
                             !.target_language = target_language,
                             !.failing = failing]
    /\ cancel_requested = [c \in Sessions |-> NoRequest]
    /\ zips = [c \in Sessions |-> {}]
    /\ ServicesAtRest
    /\ CleanupAtRest
    /\ app \in Apps
    /\ formatter_api = SubtitleFormatterMethods
    /\ sess = [c \in Sessions |-> EmptySession]
    /\ uploads = {}
    /\ outputs = {}
    /\ jobs = [j \in JobIds |-> IdleJob]
    /\ njobs = 0

NextTranslate == TranslateTranscript

SpecTranslate == InitTranslate /\ [][NextTranslate]_vars

(***************************************************************************)
(* What a client can observe of a job.                                     *)
(***************************************************************************)
Ended(j) == jobs[j].pc \in {"done", "crashed"}
EventNames(j) == {jobs[j].events[i].name : i \in 1..Len(jobs[j].events)}
LastEventName(j) ==
    IF jobs[j].events = <<>> THEN ""
    ELSE jobs[j].events[Len(jobs[j].events)].name
Completed(j) ==
    IF app = "app" THEN "processing_complete" \in EventNames(j)
    ELSE jobs[j].pc = "done" /\ jobs[j].exc = ""
\* The subtitle files job j wrote (its extracted audio is no artifact).
ArtifactsWritten(j) == jobs[j].wrote \ {AudioName(jobs[j].sid)}
PathsOf(files) == {files[i].path : i \in 1..Len(files)}
PairsOf(files) == {<<files[i].format, files[i].language>> : i \in 1..Len(files)}

(***************************************************************************)
(* C1. A job of app.py none of whose calls (demux, speech recognition,    *)
(* translation, rendering, file write, session store) failed ends with     *)
(* processing_complete as its last event, the event's file list is the     *)
(* list of the artifacts the job wrote, one per requested unit, and the    *)
(* job emitted no processing_error.                                        *)
(***************************************************************************)
C1_SuccessfulJobCompletes ==
    \A j \in JobIds :
        (app = "app" /\ Ended(j) /\ jobs[j].faults = {}) =>
            /\ LastEventName(j) = "processing_complete"
            /\ jobs[j].events[Len(jobs[j].events)].files = jobs[j].output_files
            /\ PathsOf(jobs[j].output_files) = ArtifactsWritten(j)
            /\ Cardinality(ArtifactsWritten(j)) =
                   Units(jobs[j].formats, jobs[j].targets)
            /\ "processing_error" \notin EventNames(j)

(***************************************************************************)
(* C2. A job whose thread has ended has a terminal outcome the client can  *)
(* observe: the last event of app.py is processing_complete or             *)
(* processing_error, /status of simple_app.py answers complete.            *)
(***************************************************************************)
C2_EndedJobHasTerminalOutcome ==
    \A j \in JobIds :
        Ended(j) =>
            IF app = "app"
            THEN LastEventName(j) \in {"processing_complete", "processing_error"}
            ELSE StatusAnswer(jobs[j].sid).complete

(***************************************************************************)
(* C3. The percentages of the progress_update events of one job, in the    *)
(* order of emission over all stages, never decrease.                      *)
(***************************************************************************)
C3_PercentagesNeverDecrease ==
    \A j \in JobIds :
        LET ev == jobs[j].events
        IN  \A i, k \in 1..Len(ev) :
                (i < k /\ ev[i].name = "progress_update"
                       /\ ev[k].name = "progress_update")
                    => ev[i].progress <= ev[k].progress

(***************************************************************************)
(* C4. The last percentage a job emitted before processing_complete is     *)
(* 100, whatever formats and target languages were requested.              *)
(***************************************************************************)
C4_LastPercentageIs100 ==
    \A j \in JobIds :
        LET ev == jobs[j].events
        IN  \A i \in 1..Len(ev) :
                ev[i].name = "processing_complete" =>
                    \E k \in 1..(i - 1) :
                        /\ ev[k].name = "progress_update"
                        /\ ev[k].progress = 100
                        /\ \A m \in (k + 1)..(i - 1) :
                               ev[m].name # "progress_update"

(***************************************************************************)
(* C5. While a job of a session is running, /process of that session is    *)
(* answered with an error, and no two jobs of one session run at once.     *)
(***************************************************************************)
C5_OneJobInFlight ==
    /\ \A c \in Clients :
           (\E j \in JobIds : Running(j) /\ jobs[j].sid = c)
               => ProcessAnswer(c).status # 200
    /\ \A j, k \in JobIds :
           (j # k /\ Running(j) /\ Running(k)) => jobs[j].sid # jobs[k].sid

(***************************************************************************)
(* C6. /download answers with a generated subtitle file only when the job  *)
(* that wrote the file has completed.                                      *)
(***************************************************************************)
C6_DownloadOnlyAfterCompleted ==
    \A c \in Clients, n \in DownloadNames :
        LET answer == DownloadAnswer(c, n)
        IN  (app = "app" /\ answer.status = 200 /\ answer.file \in outputs) =>
                \A j \in JobIds :
                    answer.file \in ArtifactsWritten(j) => Completed(j)

\* The (format, language) pairs job j was asked for, and those among them
\* in whose pass a call of the given kinds raised.
RequestedPairs(j) ==
    {<<jobs[j].formats[f], "original">> : f \in 1..Len(jobs[j].formats)}
    \cup {<<jobs[j].formats[f], jobs[j].targets[l]>> :
            f \in 1..Len(jobs[j].formats), l \in 1..Len(jobs[j].targets)}
PairsWithFault(j, kinds) ==
    {p \in RequestedPairs(j) :
        \E k \in kinds : Fault(k, p[1], p[2]) \in jobs[j].faults}
TranslatedPairs(j) == {p \in RequestedPairs(j) : p[2] # "original"}
RaisingKinds == {"render_error", "session_error", "open_error", "write_error"}

(***************************************************************************)
(* C7. The recorded outputs of a completed job hold exactly one artifact   *)
(* for each requested (format, language) pair whose language is original   *)
(* or a target language whose translation succeeded.                       *)
(***************************************************************************)
C7_OutputsAreFormatsTimesLanguages ==
    \A j \in JobIds :
        Completed(j) =>
            /\ PairsOf(jobs[j].output_files) =
                   RequestedPairs(j) \ PairsWithFault(j, {"translate_error"})
            /\ Len(jobs[j].output_files) =
                   Cardinality(PairsOf(jobs[j].output_files))

(***************************************************************************)
(* C8. A job whose only failures are exceptions raised while a translated  *)
(* subtitle was produced is not aborted: it processes every requested      *)
(* unit, ends completed, and the pairs whose pass raised are the only      *)
(* ones missing from its outputs.                                          *)
(***************************************************************************)
OnlyTranslatedUnitsFailed(j) ==
    /\ jobs[j].faults # {}
    /\ \A f \in jobs[j].faults :
           <<f[2], f[3]>> \in TranslatedPairs(j)

C8_TranslatedUnitFailureDoesNotAbort ==
    \A j \in JobIds :
        (Ended(j) /\ OnlyTranslatedUnitsFailed(j)) =>
            /\ Completed(j)
            /\ "processing_error" \notin EventNames(j)
            /\ app = "app" => jobs[j].current_task = jobs[j].total_tasks
            /\ PairsOf(jobs[j].output_files) =
                   RequestedPairs(j) \ PairsWithFault(j, RaisingKinds)
            /\ PathsOf(jobs[j].output_files) \subseteq outputs

\* A completed job whose first translated unit raised and which went on to
\* write the same language for the next format.
C8_Witness ==
    \E j \in JobIds :
        /\ Ended(j) /\ OnlyTranslatedUnitsFailed(j) /\ Completed(j)
        /\ Len(jobs[j].formats) = 2 /\ Len(jobs[j].targets) >= 1
        /\ Fault("render_error", jobs[j].formats[1], jobs[j].targets[1])
               \in jobs[j].faults
        /\ <<jobs[j].formats[2], jobs[j].targets[1]>>
               \in PairsOf(jobs[j].output_files)

(***************************************************************************)
(* C9. A job in which writing a translated subtitle file failed never      *)
(* reports completed, and ends with processing_error as its last event.    *)
(***************************************************************************)
C9_TranslatedWriteFailureIsFatal ==
    \A j \in JobIds :
        (app = "app"
           /\ PairsWithFault(j, {"open_error", "write_error"})
                  \cap TranslatedPairs(j) # {}) =>
            /\ ~Completed(j)
            /\ Ended(j) => LastEventName(j) = "processing_error"

(***************************************************************************)
(* C10. translate_transcript returns as many segments as it was given,     *)
(* for every transcript, every target language and every set of            *)
(* translator calls that raise.                                            *)
(***************************************************************************)
C10_SegmentCountPreserved ==
    translation.called =>
        /\ translation.result.type = translation.segments.type
        /\ PyLen(translation.result) = PyLen(translation.segments)

\* A transcript of more than one batch every translator call of which
\* raised.
C10_Witness ==
    /\ translation.called
    /\ translation.segments.type = "list"
    /\ PyLen(translation.segments) > batch_size
    /\ translation.failing = 1..PyLen(translation.segments)
    /\ PyLen(translation.result) = PyLen(translation.segments)

(***************************************************************************)
(* C11. A job in which extract_audio failed stops there: the thread is in  *)
(* its handler or has ended, transcribe_audio was not called, no subtitle  *)
(* file of the job was written or is listed, and the job of app.py ends    *)
(* with processing_error as its only terminal event.                       *)
(***************************************************************************)
ExtractionFailed(j) == Fault("extract_audio", "", "") \in jobs[j].faults

C11_ExtractionFailureStopsJob ==
    \A j \in JobIds :
        ExtractionFailed(j) =>
            /\ jobs[j].pc \in {"except", "done", "crashed"}
            /\ Fault("transcribe_audio", "", "") \notin jobs[j].faults
            /\ jobs[j].wrote = {}
            /\ jobs[j].output_files = <<>>
            /\ ~Completed(j)
            /\ app = "app" =>
                   /\ "processing_complete" \notin EventNames(j)
                   /\ \A i \in 1..Len(jobs[j].events) :
                          jobs[j].events[i].name = "progress_update" =>
                              /\ jobs[j].events[i].stage = "transcription"
                              /\ jobs[j].events[i].progress = 0
                   /\ Ended(j) => LastEventName(j) = "processing_error"

\* A job of app.py on a video that ended after extract_audio failed.
C11_Witness ==
    \E j \in JobIds :
        /\ app = "app" /\ ExtractionFailed(j) /\ Ended(j)
        /\ jobs[j].file_info.type = "video"
        /\ LastEventName(j) = "processing_error"


(***************************************************************************)
(* Cancellation. Neither application defines a route or a socket event     *)
(* that cancels a job, and process_background reads no flag: a client's    *)
(* request to cancel is answered 404 (or ignored by the socket server) and *)
(* changes nothing the thread reads. cancel_requested records that the     *)
(* request was made, and the job as it was at that time.                   *)
(***************************************************************************)
Routes ==
    IF app = "app"
    THEN {"/", "/upload", "/progress", "/process", "/result",
          "/download/<filename>", "/download_zip"}
    ELSE {"/", "/upload", "/progress", "/process", "/status", "/result",
          "/download/<filename>", "/download_all"}
SocketEvents ==
    IF app = "app" THEN {"connect", "disconnect", "join_session"} ELSE {}
CancelRequests == {"/cancel", "cancel"}

RunningJobOf(c) == {j \in JobIds : jobs[j].sid = c /\ Running(j)}

RequestCancel(c, name) ==
    /\ RunningJobOf(c) # {}
    /\ ~cancel_requested[c].requested
    /\ name \notin Routes \cup SocketEvents
    /\ LET j == CHOOSE k \in RunningJobOf(c) : TRUE IN
          cancel_requested' =
              [cancel_requested EXCEPT
                  ![c] = [requested |-> TRUE, job |-> j, at |-> jobs[j]]]
    /\ UNCHANGED <<zips, service_vars, cleanup_vars, pipeline_vars>>

NextCancel ==
    \/ Next
    \/ \E c \in Clients, name \in CancelRequests : RequestCancel(c, name)
SpecCancel == Init /\ [][NextCancel]_vars

\* The collaborator call that was in flight when cancellation was requested
\* for job j has returned.
InFlightCallReturned(j) ==
    /\ cancel_requested[jobs[j].sid].requested
    /\ cancel_requested[jobs[j].sid].job = j
    /\ jobs[j] # cancel_requested[jobs[j].sid].at

(***************************************************************************)
(* C12. Once cancellation has been requested for the running job of a      *)
(* session and the call that was in flight has returned, the job starts no *)
(* further stage: its only further step is the one that ends it.           *)
(***************************************************************************)
C12_NoStageAfterCancel ==
    [][\A j \in JobIds :
          (jobs[j].sid # "" /\ InFlightCallReturned(j) /\ Running(j)) =>
              \/ jobs'[j] = jobs[j]
              \/ /\ jobs'[j].pc \in {"except", "done", "crashed"}
                 /\ jobs'[j].wrote = jobs[j].wrote
                 /\ jobs'[j].output_files = jobs[j].output_files]_vars

(***************************************************************************)
(* The bundles. download_zip (app.py) and download_all (simple_app.py)     *)
(* create a zip in OUTPUT_FOLDER on every request that finds the keys of   *)
(* the session it reads; the zip exists as soon as ZipFile(..., 'w') has   *)
(* returned, whatever happens to the request after that.                   *)
(***************************************************************************)
\* The bundle of app.py under the name it is downloaded as by default.
ZipNameFixed(sid) == <<"subtitles", ".zip">>
\* f"subtitles_{session_id}.zip"
ZipName(sid) == <<"subtitles_", sid, ".zip">>
\* f"{session['session_id']}_subtitles.zip"
SimpleZipName(sid) == <<sid, "_", "subtitles", ".", "zip">>

DownloadZipAnswer(c) ==
    IF ~sess[c].has_output \/ sess[c].session_id = ""
    THEN Response(404, <<>>)
    ELSE Response(200, ZipName(sess[c].session_id))

DownloadZip(c) ==
    /\ app = "app"
    /\ LET answer == DownloadZipAnswer(c)
       IN  IF answer.status = 200
           THEN /\ outputs' = outputs \cup {answer.file}
                /\ zips' = [zips EXCEPT ![c] = @ \cup {answer.file}]
           ELSE UNCHANGED <<outputs, zips>>
    /\ UNCHANGED <<cancel_requested, service_vars, cleanup_vars,
                   translation, app,
                   formatter_api, sess, uploads, jobs, njobs>>

\* download_all: 404 without results; 500 when the results hold no 'files'
\* key, after the zip was created; else the zip.
DownloadAllAnswer(c) ==
    LET r == sess[c].results
    IN  IF ~r.present THEN Response(404, <<>>)
        ELSE IF sess[c].session_id = "" THEN Response(500, <<>>)
        ELSE IF ~r.has_files
        THEN Response(500, SimpleZipName(sess[c].session_id))
        ELSE Response(200, SimpleZipName(sess[c].session_id))

DownloadAll(c) ==
    /\ app = "simple_app"
    /\ LET answer == DownloadAllAnswer(c)
       IN  IF answer.file # <<>>
           THEN /\ outputs' = outputs \cup {answer.file}
                /\ zips' = [zips EXCEPT ![c] = @ \cup {answer.file}]
           ELSE UNCHANGED <<outputs, zips>>
    /\ UNCHANGED <<cancel_requested, service_vars, cleanup_vars,
                   translation, app,
                   formatter_api, sess, uploads, jobs, njobs>>

(***************************************************************************)
(* Two sessions at work at the same time: each client uploads one file and *)
(* submits one small job, with the formatter's to_format taken from the    *)
(* specification, and asks for its bundle.                                 *)
(***************************************************************************)
ProcessOnce(c, formats, targets) ==
    /\ \A j \in JobIds : jobs[j].sid # sess[c].session_id
    /\ ProcessWithin(c, formats, targets, MaxJobs + 1, MaxOverlapUnits)

NextSessions ==
    \/ \E c \in Sessions, t \in FileTypes :
          sess[c].uploaded_file = NoFile /\ Upload(c, t)
    \/ \E c \in Sessions, f \in FormatLists, t \in LangLists :
          ProcessOnce(c, f, t)
    \/ \E j \in JobIds : Step(j)
    \/ \E j \in JobIds : TranslateUnit(j)
    \/ \E j \in JobIds : SimpleTranslateUnit(j)
    \/ \E c \in Sessions : DownloadZip(c)
    \/ \E c \in Sessions : DownloadAll(c)
SpecSessions == InitRender /\ [][NextSessions]_vars

\* The paths (folder, name) written on behalf of session identifier sid: by
\* upload_file, by the threads of its jobs and by its bundle requests.
PathsWrittenFor(sid) ==
    {<<"uploads", sess[c].uploaded_file.path>> :
        c \in {k \in Sessions : sess[k].session_id = sid
                                /\ sess[k].uploaded_file # NoFile}}
    \cup {<<"outputs", n>> :
            n \in UNION {jobs[j].wrote : j \in {k \in JobIds : jobs[k].sid = sid}}}
    \cup {<<"outputs", n>> :
            n \in UNION {zips[c] : c \in {k \in Sessions : sess[k].session_id = sid}}}

(***************************************************************************)
(* C13. Two distinct session identifiers never write the same path: the    *)
(* uploaded sources, extracted audio, subtitle outputs and bundles written *)
(* for one are disjoint from those written for the other.                  *)
(***************************************************************************)
C13_SessionsWriteDisjointPaths ==
    \A s1 \in Sessions, s2 \in Sessions :
        s1 # s2 => PathsWrittenFor(s1) \cap PathsWrittenFor(s2) = {}

\* Both sessions have written an upload, an extracted audio file and a
\* bundle, and one of them a subtitle output.
C13_Witness ==
    /\ \A s \in Sessions :
          /\ \E p \in PathsWrittenFor(s) : p[1] = "uploads"
          /\ \E j \in JobIds : jobs[j].sid = s /\ AudioName(s) \in jobs[j].wrote
          /\ zips[s] # {}
    /\ \E s \in Sessions, j \in JobIds :
          jobs[j].sid = s /\ ArtifactsWritten(j) # {}

\* The components of a file name that are a session identifier.
EmbeddedIds(name) == {name[i] : i \in 1..Len(name)} \cap Sessions

(***************************************************************************)
(* C14 as stated. Every file written for a session under the upload or the *)
(* output folder has a name that begins with that session's identifier.    *)
(***************************************************************************)
C14_NameBeginsWithSessionId ==
    \A s \in Sessions : \A p \in PathsWrittenFor(s) : p[2][1] = s

(***************************************************************************)
(* C14. Every file written for a session under the upload or the output    *)
(* folder has a name that holds that session's identifier: at its start    *)
(* for the upload, the subtitle outputs and the bundle of simple_app.py,   *)
(* after "audio_" for the extracted audio and after "subtitles_" for the   *)
(* bundle of app.py.                                                       *)
(***************************************************************************)
C14_NameEmbedsSessionId ==
    \A s \in Sessions : \A p \in PathsWrittenFor(s) :
        /\ s \in EmbeddedIds(p[2])
        /\ \/ p[2][1] = s
           \/ p[2] \in {AudioName(s), ZipName(s)}

\* A session has written its upload, an extracted audio file and the bundle
\* of app.py.
C14_Witness ==
    \E s \in Sessions :
        /\ <<"outputs", AudioName(s)>> \in PathsWrittenFor(s)
        /\ <<"outputs", ZipName(s)>> \in PathsWrittenFor(s)
        /\ \E p \in PathsWrittenFor(s) : p[1] = "uploads" /\ p[2][1] = s

(***************************************************************************)
(* utils/cleanup.py: FileCleanupService. disk holds the entries of the two *)
(* folders as os.listdir and os.path.getmtime show them: folder, name and  *)
(* last-modified time in hours. The folders outlive the process, so a      *)
(* process starts with entries of any age in them.                         *)
(***************************************************************************)
MaxTicks == 1

Roots == <<"uploads", "outputs">>
Entry(root, name, mtime) == [root |-> root, name |-> name, mtime |-> mtime]

\* The names found in the folders, in the order os.listdir gives them.
HiddenName == <<".", "gitkeep">>
DiskNames ==
    <<Entry("uploads", HiddenName, 0),
      Entry("uploads", UploadName("s1", UploadFilename("video")), 0),
      Entry("outputs", AudioName("s1"), 0),
      Entry("outputs", OutputName("s2", "original", AllFormats[1]), 0)>>
\* Last-modified times at the start: older than the threshold, exactly the
\* threshold old, and new.
StartMtimes == {0, StartClock - max_age_hours, StartClock}

\* filename.startswith('.')
Hidden(filename) == filename[1] = "."
\* An entry exactly as old as the threshold counted as expired.
ExpiredInclusive(file_mtime, cutoff_time) == file_mtime <= cutoff_time
\* file_mtime < cutoff_time
Expired(file_mtime, cutoff_time) == file_mtime < cutoff_time
\* The session identifier looked for at the start of the name only.
ContainsAsPrefix(filename, session_id) == filename[1] = session_id
\* session_id in filename
Contains(filename, session_id) ==
    \E i \in 1..Len(filename) : filename[i] = session_id

OnDisk(root, name) == {e \in disk : e.root = root /\ e.name = name}
\* os.listdir(directory)
Listing(root) ==
    LET present(d) == d.root = root /\ OnDisk(root, d.name) # {}
        names == SelectSeq(DiskNames, present)
    IN  [i \in 1..Len(names) |-> names[i].name]

InitCleanup ==
    /\ cancel_requested = [c \in Sessions |-> NoRequest]
    /\ zips = [c \in Sessions |-> {}]
    /\ ServicesAtRest
    /\ translation = NoCall
    /\ app \in Apps
    /\ formatter_api = SubtitleFormatterMethods
    /\ sess = [c \in Sessions |-> EmptySession]
    /\ uploads = {}
    /\ outputs = {}
    /\ jobs = [j \in JobIds |-> IdleJob]
    /\ njobs = 0
    /\ now = StartClock
    /\ sweep = NoSweep
    /\ scrub = NoScrub
    /\ \E present \in SUBSET (1..Len(DiskNames)) :
         \E mtimes \in [present -> StartMtimes] :
            /\ \A i \in present :
                  Hidden(DiskNames[i].name) => mtimes[i] = 0
            /\ disk = {Entry(DiskNames[i].root, DiskNames[i].name, mtimes[i]) :
                         i \in present}

\* Calls of the operating system that have raised in the running sweep and
\* in cleanup_session_files; a call may raise while fewer than MaxFaults have.
CleanupFaults ==
    Cardinality(sweep.failed) + Cardinality(sweep.unread)
    + Cardinality(sweep.unlisted)
    + Cardinality(scrub.failed) + Cardinality(scrub.unlisted)
CleanupOutcomes(ok, raising) ==
    IF CleanupFaults < MaxFaults THEN ok \cup raising ELSE ok

\* simple_app.py, cleanup_worker: the scheduler thread calls
\* cleanup_old_files, which computes the cutoff once (lines 15-16) and goes
\* to the upload folder. Only simple_app.py run as a script starts the
\* thread; app.py instantiates the service and never calls it.
StartSweep ==
    /\ app = "simple_app"
    /\ sweep.pc = "idle"
    /\ sweep' = [NoSweep EXCEPT !.pc = "listdir",
                                !.directory = Roots[1],
                                !.cutoff_time = now - max_age_hours,
                                !.before = disk]
    /\ UNCHANGED <<request_vars, service_vars, pipeline_vars, disk, now, scrub>>

\* _cleanup_directory, os.listdir(directory): the listing, or an exception
\* that leaves _cleanup_directory and is caught by cleanup_old_files
\* (lines 26-27), which ends the sweep.
ListDir ==
    /\ sweep.pc = "listdir"
    /\ \E ok \in CleanupOutcomes({TRUE}, {FALSE}) :
         sweep' = IF ok
                  THEN [sweep EXCEPT !.pc = "getmtime",
                                     !.todo = Listing(sweep.directory)]
                  ELSE [sweep EXCEPT !.pc = "sleep",
                                     !.unlisted = @ \cup {sweep.directory}]
    /\ UNCHANGED <<request_vars, service_vars, pipeline_vars, disk, now, scrub>>

\* The end of the for loop of _cleanup_directory: cleanup_old_files goes to
\* the output folder, or is finished and the worker sleeps.
SweepNextDirSkipping ==
    /\ sweep.pc = "getmtime"
    /\ sweep.todo = <<>>
    /\ sweep' = [sweep EXCEPT !.pc = "sleep"]
    /\ UNCHANGED <<request_vars, service_vars, pipeline_vars, disk, now, scrub>>
SweepNextDir ==
    /\ sweep.pc = "getmtime"
    /\ sweep.todo = <<>>
    /\ sweep' = IF sweep.directory = Roots[1]
                THEN [sweep EXCEPT !.pc = "listdir", !.directory = Roots[2]]
                ELSE [sweep EXCEPT !.pc = "sleep"]
    /\ UNCHANGED <<request_vars, service_vars, pipeline_vars, disk, now, scrub>>

\* Lines 38-46: a hidden name is skipped; os.path.getmtime raises for an
\* entry that is gone, and may raise for one that is there, which the
\* per-file handler logs; an entry older than the cutoff goes to os.remove.
SweepEntry ==
    /\ sweep.pc = "getmtime"
    /\ sweep.todo # <<>>
    /\ LET filename == Head(sweep.todo)
           found == OnDisk(sweep.directory, filename)
           path == <<sweep.directory, filename>>
       IN  IF Hidden(filename)
           THEN sweep' = [sweep EXCEPT !.todo = Tail(@)]
           ELSE \E ok \in CleanupOutcomes({TRUE}, {FALSE}) :
                  sweep' =
                    IF ~ok \/ found = {}
                    THEN [sweep EXCEPT !.todo = Tail(@),
                                       !.unread = @ \cup {path}]
                    ELSE IF \E e \in found :
                                Expired(e.mtime, sweep.cutoff_time)
                    THEN [sweep EXCEPT !.pc = "remove"]
                    ELSE [sweep EXCEPT !.todo = Tail(@)]
    /\ UNCHANGED <<request_vars, service_vars, pipeline_vars, disk, now, scrub>>

\* Lines 47-52: os.remove(filepath) removes the entry or raises, which the
\* per-file handler logs; the loop goes on with the next name.
SweepRemoveAborting ==
    /\ sweep.pc = "remove"
    /\ LET filename == Head(sweep.todo)
           found == OnDisk(sweep.directory, filename)
           path == <<sweep.directory, filename>>
       IN  \E ok \in CleanupOutcomes({TRUE}, {FALSE}) :
             IF ok /\ found # {}
             THEN /\ disk' = disk \ found
                  /\ sweep' = [sweep EXCEPT !.pc = "getmtime",
                                            !.todo = Tail(@),
                                            !.removed = @ \cup {path}]
             ELSE /\ disk' = disk
                  /\ sweep' = [sweep EXCEPT !.pc = "sleep",
                                            !.failed = @ \cup {path}]
    /\ UNCHANGED <<request_vars, service_vars, pipeline_vars, now, scrub>>
SweepRemove ==
    /\ sweep.pc = "remove"
    /\ LET filename == Head(sweep.todo)
           found == OnDisk(sweep.directory, filename)
           path == <<sweep.directory, filename>>
       IN  \E ok \in CleanupOutcomes({TRUE}, {FALSE}) :
             IF ok /\ found # {}
             THEN /\ disk' = disk \ found
                  /\ sweep' = [sweep EXCEPT !.pc = "getmtime",
                                            !.todo = Tail(@),
                                            !.removed = @ \cup {path}]
             ELSE /\ disk' = disk
                  /\ sweep' = [sweep EXCEPT !.pc = "getmtime",
                                            !.todo = Tail(@),
                                            !.failed = @ \cup {path}]
    /\ UNCHANGED <<request_vars, service_vars, pipeline_vars, now, scrub>>

\* An hour passes (the clock of the model stops at its bound); the worker
\* wakes from time.sleep(3600), with nothing left of the sweep before.
Tick ==
    /\ now' = Min(now + 1, StartClock + MaxTicks)
    /\ sweep' = IF sweep.pc = "sleep" THEN NoSweep ELSE sweep
    /\ UNCHANGED <<request_vars, service_vars, pipeline_vars, disk, scrub>>

\* A request or a job writes an existing file again, one that a sweep would
\* remove: its last-modified time becomes the present.
Touch(e) ==
    /\ e \in disk
    /\ ~Hidden(e.name)
    /\ Expired(e.mtime, now - max_age_hours)
    /\ disk' = (disk \ {e}) \cup {Entry(e.root, e.name, now)}
    /\ UNCHANGED <<request_vars, service_vars, pipeline_vars, now, sweep, scrub>>

\* transcribe_file removes the audio it extracted once the transcription is
\* done (transcribe.py, lines 285-289).
RemoveAudio(e) ==
    /\ e \in disk
    /\ e.root = Roots[2]
    /\ \E sid \in Sessions : e.name = AudioName(sid)
    /\ disk' = disk \ {e}
    /\ UNCHANGED <<request_vars, service_vars, pipeline_vars, now, sweep, scrub>>

\* cleanup_session_files(session_id), the whole call: for each folder whose
\* listing succeeds, os.remove for each name that contains session_id; a
\* removal that raises is logged and the loop goes on; os.listdir raising
\* ends the call (lines 74-75).
CleanupSessionFiles(session_id) ==
    /\ ~scrub.called
    /\ \E unlisted \in CleanupOutcomes({{}}, {{Roots[1]}, {Roots[2]}}) :
         LET listed == IF Roots[1] \in unlisted THEN {}
                       ELSE IF Roots[2] \in unlisted THEN {Roots[1]}
                       ELSE {Roots[1], Roots[2]}
             hits == {e \in disk : e.root \in listed
                                   /\ Contains(e.name, session_id)}
         IN  \E failing \in SUBSET hits :
               /\ Cardinality(failing) + Cardinality(unlisted) + CleanupFaults
                      <= MaxFaults
               /\ disk' = disk \ (hits \ failing)
               /\ scrub' = [called |-> TRUE, session_id |-> session_id,
                            removed |-> hits \ failing, failed |-> failing,
                            unlisted |-> unlisted]
    /\ UNCHANGED <<request_vars, service_vars, pipeline_vars, now, sweep>>

NextCleanup ==
    \/ StartSweep
    \/ ListDir
    \/ SweepEntry
    \/ SweepRemove
    \/ SweepNextDir
    \/ Tick
    \/ \E e \in disk : Touch(e)
    \/ \E e \in disk : RemoveAudio(e)
SpecCleanup == InitCleanup /\ [][NextCleanup]_vars

\* cleanup_session_files, which nothing in src/ calls, called once on the
\* folders as they are found.
NextScrub ==
    \/ \E id \in Sessions : CleanupSessionFiles(id)
    \/ \E e \in disk : Touch(e)
    \/ Tick
SpecScrub == InitCleanup /\ [][NextScrub]_vars

\* The scheduler thread runs whenever it can, and time passes.
SweepStep == StartSweep \/ ListDir \/ SweepEntry \/ SweepRemove \/ SweepNextDir
SpecCleanupFair == SpecCleanup /\ WF_vars(SweepStep) /\ WF_vars(Tick)

\* A sweep has run to its end; every call of os.remove it made succeeded.
SweepIsOver == sweep.pc = "sleep"
EveryRemovalSucceeded == sweep.failed = {}
EveryListingSucceeded == sweep.unlisted = {}
EveryLookupSucceeded == sweep.unread = {}
\* The entries left in the folders that are older than the threshold was at
\* the time of the sweep.
ExpiredRemainder == {e \in disk : e.mtime < sweep.cutoff_time}

(***************************************************************************)
(* C15 as stated. After a sweep in which every removal succeeded, no entry *)
(* older than the threshold at the time of the sweep is left in either     *)
(* folder.                                                                 *)
(***************************************************************************)
C15_NoExpiredEntryRemains ==
    (SweepIsOver /\ EveryRemovalSucceeded) => ExpiredRemainder = {}

(***************************************************************************)
(* C15. After a sweep in which both listings, every lookup of a            *)
(* last-modified time and every removal succeeded, every entry left in     *)
(* either folder that is older than the threshold at the time of the sweep *)
(* has a name beginning with a dot.                                        *)
(***************************************************************************)
C15_NoExpiredVisibleEntryRemains ==
    (/\ SweepIsOver
     /\ EveryRemovalSucceeded /\ EveryListingSucceeded
     /\ EveryLookupSucceeded) =>
        \A e \in ExpiredRemainder : Hidden(e.name)

\* A sweep without a failure has removed an expired entry from each folder
\* and left an expired hidden one.
C15_Witness ==
    /\ SweepIsOver /\ EveryRemovalSucceeded /\ EveryListingSucceeded
    /\ EveryLookupSucceeded
    /\ \A r \in {Roots[1], Roots[2]} : \E p \in sweep.removed : p[1] = r
    /\ ExpiredRemainder # {}

(***************************************************************************)
(* C16. A sweep removes no entry that was not older than the threshold     *)
(* when the sweep started: every such entry stays in its folder, with the  *)
(* last-modified time it had or a later one, unless it is the temporary    *)
(* audio file that its job removes.                                        *)
(***************************************************************************)
C16_SweepKeepsNewFiles ==
    \A e \in sweep.before :
        e.mtime >= sweep.cutoff_time =>
            /\ <<e.root, e.name>> \notin sweep.removed
            /\ \/ \E d \in OnDisk(e.root, e.name) : d.mtime >= e.mtime
               \/ \E sid \in Sessions : e.name = AudioName(sid)

\* A sweep has removed an entry and kept one whose last-modified time is
\* exactly at the cutoff and a newer one.
C16_Witness ==
    /\ SweepIsOver
    /\ sweep.removed # {}
    /\ \E e \in sweep.before \cap disk : e.mtime = sweep.cutoff_time
    /\ \E e \in sweep.before \cap disk : e.mtime > sweep.cutoff_time

\* The entries cleanup_session_files(id) finds with id in their name.
NamedAfter(id, entries) ==
    {e \in entries : \E i \in 1..Len(e.name) : e.name[i] = id}
ScrubHappens == ~scrub.called /\ scrub'.called

(***************************************************************************)
(* C17 as stated. cleanup_session_files(id) removes exactly the entries    *)
(* whose name contains id and leaves the others.                           *)
(***************************************************************************)
C17_ScrubRemovesExactlyNamed ==
    [][ScrubHappens =>
          disk' = disk \ NamedAfter(scrub'.session_id, disk)]_vars

(***************************************************************************)
(* C17. cleanup_session_files(id) removes only entries whose name contains *)
(* id, whatever their age, and changes no other entry; it removes each of  *)
(* them that is in a folder it could list and whose removal did not fail,  *)
(* so all of them when nothing failed.                                     *)
(***************************************************************************)
C17_ScrubRemovesOnlyNamed ==
    [][ScrubHappens =>
          LET named == NamedAfter(scrub'.session_id, disk)
              tried == {e \in named : e.root \notin scrub'.unlisted
                                      /\ (e.root = Roots[2] =>
                                             scrub'.unlisted = {})}
          IN  /\ disk' \subseteq disk
              /\ disk \ disk' \subseteq named
              /\ disk \ disk' = tried \ scrub'.failed
              /\ (scrub'.failed = {} /\ scrub'.unlisted = {}) =>
                     disk' = disk \ named]_vars

\* cleanup_session_files(id) has removed a new entry and an old one whose
\* names contain id, one of them not at the start of the name, and has left
\* an old entry of another session.
C17_Witness ==
    /\ scrub.called
    /\ \E e \in scrub.removed : e.mtime = StartClock
    /\ \E e \in scrub.removed : e.mtime = 0 /\ e.name[1] # scrub.session_id
    /\ \E e \in disk : /\ ~Hidden(e.name) /\ e.mtime = 0
                       /\ NamedAfter(scrub.session_id, {e}) = {}

\* An entry that is older than the threshold now.
ExpiredNow(root, name) ==
    \E e \in OnDisk(root, name) : Expired(e.mtime, now - max_age_hours)

(***************************************************************************)
(* C18. The sweep runs for the whole life of the process, so an entry that *)
(* is older than the threshold is eventually deleted (or written again).   *)
(***************************************************************************)
C18_ExpiredFilesAreEventuallyDeleted ==
    \A i \in 1..Len(DiskNames) :
        ~Hidden(DiskNames[i].name) =>
            (ExpiredNow(DiskNames[i].root, DiskNames[i].name)
                ~> ~ExpiredNow(DiskNames[i].root, DiskNames[i].name))

\* The expired entries the sweep found when it started, other than those
\* whose removal failed.
ExpiredAtStart ==
    {e \in sweep.before : e.mtime < sweep.cutoff_time
                          /\ <<e.root, e.name>> \notin sweep.failed}

(***************************************************************************)
(* C19 as stated. A sweep in which a removal failed has still deleted      *)
(* every other expired entry of both folders.                              *)
(***************************************************************************)
C19_FailureLeavesNoOtherExpiredEntry ==
    (SweepIsOver /\ sweep.failed # {}) => ExpiredAtStart \cap disk = {}

(***************************************************************************)
(* C19. A sweep in which a removal failed and no listing did has still     *)
(* deleted every other expired entry of both folders whose name does not   *)
(* begin with a dot and whose last-modified time it could read: it removed *)
(* each one that nobody else removed or wrote again.                       *)
(***************************************************************************)
C19_FailureLeavesNoOtherVisibleExpiredEntry ==
    (SweepIsOver /\ sweep.failed # {} /\ EveryListingSucceeded) =>
        \A e \in ExpiredAtStart :
            (~Hidden(e.name) /\ <<e.root, e.name>> \notin sweep.unread) =>
                \/ <<e.root, e.name>> \in sweep.removed
                \/ \E d \in OnDisk(e.root, e.name) : d.mtime > e.mtime
                \/ /\ OnDisk(e.root, e.name) = {}
                   /\ \E sid \in Sessions : e.name = AudioName(sid)

\* The removal of the upload failed, and the sweep went on to remove both
\* entries of the output folder; or the removal of the first entry of the
\* output folder failed and the sweep removed the second one.
C19_Witness ==
    /\ SweepIsOver
    /\ \/ /\ sweep.failed = {<<Roots[1], DiskNames[2].name>>}
          /\ sweep.removed = {<<Roots[2], DiskNames[3].name>>,
                              <<Roots[2], DiskNames[4].name>>}
       \/ /\ sweep.failed = {<<Roots[2], DiskNames[3].name>>}
          /\ <<Roots[2], DiskNames[4].name>> \in sweep.removed

\* The stage an event of app.py reports, in the order of the state machine
\* of the specification: transcription covers Extracting and Transcribing,
\* "translation" is Translating, "subtitle_generation" is Formatting, and
\* the two terminal events come last.
StageRank(ev) ==
    IF ev.name # "progress_update" THEN 4
    ELSE IF ev.stage = "transcription" THEN 1
    ELSE IF ev.stage = "translation" THEN 2
    ELSE 3
\* The same with Translating and Formatting as one phase.
PhaseRank(ev) ==
    IF ev.name # "progress_update" THEN 3
    ELSE IF ev.stage = "transcription" THEN 1
    ELSE 2

(***************************************************************************)
(* C20 as stated. The stages the events of a job report never go back in   *)
(* the order transcription, translation, formatting, terminal.             *)
(***************************************************************************)
C20_StagesOnlyMoveForward ==
    \A j \in JobIds :
        \A i \in 1..Len(jobs[j].events), k \in 1..Len(jobs[j].events) :
            i < k => StageRank(jobs[j].events[i]) <= StageRank(jobs[j].events[k])

(***************************************************************************)
(* C20. The events of a job report transcription first, then the phase in  *)
(* which formatting and translation alternate (for each format the         *)
(* original is formatted, then each target language is translated and      *)
(* formatted), then one terminal event, after which nothing is reported.   *)
(***************************************************************************)
C20_PhasesOnlyMoveForward ==
    \A j \in JobIds :
        \A i \in 1..Len(jobs[j].events), k \in 1..Len(jobs[j].events) :
            i < k =>
                /\ PhaseRank(jobs[j].events[i]) <= PhaseRank(jobs[j].events[k])
                /\ jobs[j].events[i].name = "progress_update"

\* A completed job of two formats and a target language has reported
\* formatting, translation and formatting again.
C20_Witness ==
    \E j \in JobIds :
        /\ LastEventName(j) = "processing_complete"
        /\ Len(jobs[j].formats) = 2
        /\ \E a \in 1..Len(jobs[j].events), b \in 1..Len(jobs[j].events),
              c \in 1..Len(jobs[j].events) :
                /\ a < b /\ b < c
                /\ jobs[j].events[a].stage = "subtitle_generation"
                /\ jobs[j].events[b].stage = "translation"
                /\ jobs[j].events[c].stage = "subtitle_generation"

(***************************************************************************)
(* utils/transcribe.py: get_whisper_model, called by transcribe_audio in   *)
(* the thread of each job. The whole body runs inside                      *)
(* `with self.model_lock`, the return statement included.                  *)
(***************************************************************************)
WhisperStep(t, from, to, changes) ==
    /\ whisper.pc[t] = from
    /\ whisper' = [changes EXCEPT !.pc[t] = to]
    /\ UNCHANGED <<request_vars, rendering, cleanup_vars, pipeline_vars>>

\* transcribe_audio calls get_whisper_model.
CallGetModel(t) == WhisperStep(t, "idle", "acquire", whisper)

\* `with self.model_lock:` entered without waiting for the lock.
AcquireWithoutLock(t) ==
    WhisperStep(t, "acquire", "check", [whisper EXCEPT !.model_lock = t])
\* `with self.model_lock:` the thread waits until the lock is free.
AcquireLock(t) ==
    /\ whisper.model_lock = 0
    /\ WhisperStep(t, "acquire", "check", [whisper EXCEPT !.model_lock = t])

\* `if self.model is None:`
CheckModel(t) ==
    WhisperStep(t, "check",
                IF whisper.model = 0 THEN "construct" ELSE "return", whisper)

\* `self.model = WhisperModel(...)`: a new model, or an exception that is
\* logged and raised again.
ConstructModel(t) ==
    \E ok \in IF whisper.raised < MaxFaults THEN {TRUE, FALSE} ELSE {TRUE} :
        IF ok
        THEN WhisperStep(t, "construct", "return",
                         [whisper EXCEPT !.model = whisper.built + 1,
                                         !.built = @ + 1])
        ELSE WhisperStep(t, "construct", "raise",
                         [whisper EXCEPT !.raised = @ + 1])

\* `return self.model`, which leaves the with block and releases the lock.
ReturnModel(t) ==
    WhisperStep(t, "return", "returned",
                [whisper EXCEPT !.got[t] = whisper.model,
                                !.model_lock = IF @ = t THEN 0 ELSE @])

\* The exception leaves the with block, which releases the lock.
RaiseFromGetModel(t) ==
    WhisperStep(t, "raise", "raised",
                [whisper EXCEPT !.model_lock = IF @ = t THEN 0 ELSE @])

\* The next job of the thread calls again.
CallAgain(t) ==
    /\ whisper.pc[t] \in {"returned", "raised"}
    /\ WhisperStep(t, whisper.pc[t], "acquire", [whisper EXCEPT !.got[t] = 0])

NextWhisper == \E t \in Callers :
    \/ CallGetModel(t)
    \/ AcquireLock(t)
    \/ CheckModel(t)
    \/ ConstructModel(t)
    \/ ReturnModel(t)
    \/ RaiseFromGetModel(t)
    \/ CallAgain(t)
SpecWhisper == Init /\ [][NextWhisper]_vars

(***************************************************************************)
(* C21. However the calls of get_whisper_model of different threads        *)
(* interleave, at most one model is ever constructed, and every call that  *)
(* returns gets that one model.                                            *)
(***************************************************************************)
C21_ModelConstructedOnce ==
    /\ whisper.built <= 1
    /\ \A t \in Callers :
          whisper.pc[t] = "returned" =>
              /\ whisper.got[t] # 0
              /\ whisper.got[t] = whisper.model
    /\ \A t \in Callers, u \in Callers :
          (whisper.pc[t] = "returned" /\ whisper.pc[u] = "returned") =>
              whisper.got[t] = whisper.got[u]

\* Two threads were in get_whisper_model at the same time, the first
\* construction failed, and both calls that returned got the model.
C21_Witness ==
    /\ whisper.raised > 0
    /\ whisper.built = 1
    /\ \E t \in Callers, u \in Callers :
          /\ t # u
          /\ whisper.pc[t] = "returned"
          /\ whisper.pc[u] = "returned"
          /\ whisper.got[u] = whisper.got[t]

(***************************************************************************)
(* utils/subtitle_formats.py: SubtitleFormatter.                           *)
(*                                                                         *)
(* A string is a sequence of tokens (one character each, but for the fixed *)
(* words of a format), and a document is the sequence of its lines: the    *)
(* string split at every newline, so that "WEBVTT\n" is the two lines      *)
(* <<"WEBVTT">> and <<>>.                                                  *)
(*                                                                         *)
(* A time is given in whole milliseconds t and stands for the float        *)
(* t/1000 that the formatter receives. The arithmetic of the formatter on  *)
(* that float (IEEE binary64, round to nearest even) is computed on        *)
(* integers: the double nearest to t/1000 is m * 2^(X-52) with             *)
(* m = round(t * 2^(49-X) / 125), so the remainder of t * 2^(49-X) by 125  *)
(* tells whether the double is the exact value (0), above it (63..124) or  *)
(* below it (1..62), and how far.                                          *)
(***************************************************************************)
Digit(d) == <<"0", "1", "2", "3", "4", "5", "6", "7", "8", "9">>[d + 1]

RECURSIVE Digits(_)
Digits(n) == IF n < 10 THEN <<Digit(n)>>
             ELSE Digits(n \div 10) \o <<Digit(n % 10)>>

\* f"{n:0wd}": at least w digits, zeros on the left.
RECURSIVE ZeroFill(_, _)
ZeroFill(s, w) == IF Len(s) >= w THEN s ELSE ZeroFill(<<"0">> \o s, w)
Pad(n, w) == ZeroFill(Digits(n), w)

\* The binary exponent of the float t/1000, t >= 1: floor(log2(t/1000)).
RECURSIVE ExponentBelowOne(_)
ExponentBelowOne(t) == IF t >= 1000 THEN 0 ELSE ExponentBelowOne(2 * t) - 1
FloatExponent(t) == IF t >= 1000 THEN FloorLog2(t \div 1000)
                    ELSE ExponentBelowOne(t)

\* What the conversion of t/1000 to a float leaves out, in 125ths of the
\* last place: 0 exact, 1..62 the float is below t/1000, 63..124 above.
FloatRemainder(t) == ((t % 125) * Pow2Mod(49 - FloatExponent(t), 125)) % 125

\* The product of the fractional part with 1000 (scale 1) or 100 (scale 10)
\* is rounded to a float, then truncated by int(): when the float of t/1000
\* is below t/1000 and the product should be the whole number whole, the
\* result is whole only if the rounding of the product reaches it.
TruncatedFraction(t, whole, scale) ==
    LET r == FloatRemainder(t)
        n == FloorLog2(whole) - FloatExponent(t)
             - (IF IsPow2(whole) THEN 5 ELSE 4)
    IN  IF whole = 0 \/ r = 0 \/ r >= 63 THEN whole
        ELSE IF AtMostScaled(r, scale, n) THEN whole
        ELSE whole - 1

\* hours = int(td.total_seconds() // 3600)
Hours(t) == t \div 3600000
\* minutes = int((td.total_seconds() % 3600) // 60)
Minutes(t) == (t % 3600000) \div 60000
\* seconds = int(td.total_seconds() % 60)
Seconds(t) == (t % 60000) \div 1000
\* milliseconds = int((seconds % 1) * 1000)
Milliseconds(t) == TruncatedFraction(t, t % 1000, 1)
\* centiseconds = int((seconds % 1) * 100)
Centiseconds(t) ==
    IF (t % 1000) % 10 # 0 THEN (t % 1000) \div 10
    ELSE TruncatedFraction(t, (t % 1000) \div 10, 10)

\* f"{hours:02d}:{minutes:02d}:{seconds:02d},{milliseconds:03d}"
format_timestamp_srt(t) ==
    Pad(Hours(t), 2) \o <<":">> \o Pad(Minutes(t), 2) \o <<":">>
    \o Pad(Seconds(t), 2) \o <<",">> \o Pad(Milliseconds(t), 3)

\* f"{hours:02d}:{minutes:02d}:{seconds:02d}.{milliseconds:03d}"
format_timestamp_vtt(t) ==
    Pad(Hours(t), 2) \o <<":">> \o Pad(Minutes(t), 2) \o <<":">>
    \o Pad(Seconds(t), 2) \o <<".">> \o Pad(Milliseconds(t), 3)

\* f"{hours}:{minutes:02d}:{seconds:02d}.{centiseconds:02d}"
format_timestamp_ass(t) ==
    Digits(Hours(t)) \o <<":">> \o Pad(Minutes(t), 2) \o <<":">>
    \o Pad(Seconds(t), 2) \o <<".">> \o Pad(Centiseconds(t), 2)


\* str.strip(): white space is removed from both ends.
Whitespace == {" ", "\n"}
RECURSIVE lstrip(_)
lstrip(s) == IF s # <<>> /\ Head(s) \in Whitespace THEN lstrip(Tail(s)) ELSE s
RECURSIVE rstrip(_)
rstrip(s) == IF s # <<>> /\ s[Len(s)] \in Whitespace
             THEN rstrip(SubSeq(s, 1, Len(s) - 1)) ELSE s
strip(s) == rstrip(lstrip(s))

\* text.replace('\n', '\\N')
RECURSIVE EscapeNewlines(_)
EscapeNewlines(s) ==
    IF s = <<>> THEN <<>>
    ELSE (IF Head(s) = "\n" THEN <<"\\", "N">> ELSE <<Head(s)>>)
         \o EscapeNewlines(Tail(s))

\* The lines of a string: the string split at every newline.
RECURSIVE SplitLines(_, _)
SplitLines(s, line) ==
    IF s = <<>> THEN <<line>>
    ELSE IF Head(s) = "\n" THEN <<line>> \o SplitLines(Tail(s), <<>>)
    ELSE SplitLines(Tail(s), Append(line, Head(s)))

\* '\n'.join(items), as the lines of the joined string.
RECURSIVE JoinedLines(_)
JoinedLines(items) ==
    IF items = <<>> THEN <<>>
    ELSE SplitLines(Head(items), <<>>) \o JoinedLines(Tail(items))
Join(items) == IF items = <<>> THEN << <<>> >> ELSE JoinedLines(items)

Arrow == <<" --> ">>

\* The four items that to_srt appends for the i-th segment, skipping a
\* segment whose text is empty after strip().
SrtItemsSkippingEmpty(i, segment) ==
    IF strip(segment.text) = <<>> THEN <<>>
    ELSE << Digits(i),
            format_timestamp_srt(segment.start) \o Arrow
                \o format_timestamp_srt(segment.end),
            strip(segment.text),
            <<>> >>
\* The four items that to_srt appends for the i-th segment.
SrtItems(i, segment) ==
    << Digits(i),
       format_timestamp_srt(segment.start) \o Arrow
           \o format_timestamp_srt(segment.end),
       strip(segment.text),
       <<>> >>

RECURSIVE SrtContent(_, _)
SrtContent(segments, i) ==
    IF i > Len(segments) THEN <<>>
    ELSE SrtItems(i, segments[i]) \o SrtContent(segments, i + 1)

to_srt(segments) == Join(SrtContent(segments, 1))

\* The three items that to_vtt appends for a segment.
VttItems(segment) ==
    << format_timestamp_vtt(segment.start) \o Arrow
           \o format_timestamp_vtt(segment.end),
       strip(segment.text),
       <<>> >>

RECURSIVE VttContent(_)
VttContent(segments) ==
    IF segments = <<>> THEN <<>>
    ELSE VttItems(Head(segments)) \o VttContent(Tail(segments))

to_vtt(segments) == Join(<< <<"WEBVTT">>, <<>> >> \o VttContent(segments))

\* ass_header.strip(): the header keeps its inner newlines.
ass_header ==
    << "[Script Info]", "\n", "Title: Generated Subtitles", "\n",
       "ScriptType: v4.00+", "\n", "\n",
       "[V4+ Styles]", "\n",
       "Format: Name, Fontname, Fontsize, PrimaryColour, SecondaryColour, OutlineColour, BackColour, Bold, Italic, Underline, StrikeOut, ScaleX, ScaleY, Spacing, Angle, BorderStyle, Outline, Shadow, Alignment, MarginL, MarginR, MarginV, Encoding",
       "\n",
       "Style: Default,Arial,16,&H00FFFFFF,&H000000FF,&H00000000,&H80000000,0,0,0,0,100,100,0,0,1,2,0,2,10,10,10,1",
       "\n", "\n",
       "[Events]", "\n",
       "Format: Layer, Start, End, Style, Name, MarginL, MarginR, MarginV, Effect, Text",
       "\n" >>

DialoguePrefix == <<"Dialogue: 0,">>
DialogueStyle == <<",Default,,0,0,0,,">>

\* dialogue_line, with the newlines of the text replaced.
DialogueLine(segment) ==
    DialoguePrefix \o format_timestamp_ass(segment.start) \o <<",">>
    \o format_timestamp_ass(segment.end) \o DialogueStyle
    \o EscapeNewlines(strip(segment.text))

RECURSIVE AssContent(_)
AssContent(segments) ==
    IF segments = <<>> THEN <<>>
    ELSE <<DialogueLine(Head(segments))>> \o AssContent(Tail(segments))

to_ass(segments) == Join(<<strip(ass_header)>> \o AssContent(segments))

(***************************************************************************)
(* The formatter applied to segment lists and to times.                    *)
(***************************************************************************)
CueTexts == { <<>>, <<"a">>, <<" ", "b", " ">>, <<" ">>,
           <<"a", "\n", "b">>, <<"a", "\n", "\n", "b">> }
CueTimes == { <<0, 1001>>, <<1001, 2290>>, <<2290, 3661001>> }
Segments == { [start |-> p[1], end |-> p[2], text |-> x] :
                  p \in CueTimes, x \in CueTexts }
SegmentLists == UNION { [1..n -> Segments] : n \in 0..MaxCues }
Times == (0..MaxMillis)
         \cup {59999, 60000, 3599999, 3600000, 3661001, 360000000}

InitFormat ==
    /\ \/ \E segments \in SegmentLists :
              rendering = [NoRendering EXCEPT !.given = "segments",
                                              !.segments = segments]
       \/ \E t \in Times :
              rendering = [NoRendering EXCEPT !.given = "seconds",
                                              !.millis = t]
    /\ whisper = NoModel
    /\ cancel_requested = [c \in Sessions |-> NoRequest]
    /\ zips = [c \in Sessions |-> {}]
    /\ CleanupAtRest
    /\ translation = NoCall
    /\ app \in Apps
    /\ formatter_api = SubtitleFormatterMethods
    /\ sess = [c \in Sessions |-> EmptySession]
    /\ uploads = {}
    /\ outputs = {}
    /\ jobs = [j \in JobIds |-> IdleJob]
    /\ njobs = 0

\* One call of a method of the formatter: its result is kept.
FormatterCall(method, given, result) ==
    /\ rendering.given = given
    /\ method \notin rendering.called
    /\ rendering' = [result EXCEPT !.called = @ \cup {method}]
    /\ UNCHANGED <<request_vars, whisper, cleanup_vars, pipeline_vars>>

ToSrt == FormatterCall("to_srt", "segments",
             [rendering EXCEPT !.srt = to_srt(rendering.segments)])
ToVtt == FormatterCall("to_vtt", "segments",
             [rendering EXCEPT !.vtt = to_vtt(rendering.segments)])
ToAss == FormatterCall("to_ass", "segments",
             [rendering EXCEPT !.ass = to_ass(rendering.segments)])
FormatTimestampSrt ==
    FormatterCall("format_timestamp_srt", "seconds",
        [rendering EXCEPT !.stamp_srt = format_timestamp_srt(rendering.millis)])
FormatTimestampVtt ==
    FormatterCall("format_timestamp_vtt", "seconds",
        [rendering EXCEPT !.stamp_vtt = format_timestamp_vtt(rendering.millis)])
FormatTimestampAss ==
    FormatterCall("format_timestamp_ass", "seconds",
        [rendering EXCEPT !.stamp_ass = format_timestamp_ass(rendering.millis)])

NextFormat ==
    \/ ToSrt
    \/ ToVtt
    \/ ToAss
    \/ FormatTimestampSrt
    \/ FormatTimestampVtt
    \/ FormatTimestampAss
SpecFormat == InitFormat /\ [][NextFormat]_vars

\* Observation: the lines of a document that hold a timing arrow or begin a
\* Dialogue event, and the i-th of them.
IsTimingLine(line) == \E k \in 1..Len(line) : line[k] = " --> "
IsDialogueLine(line) == line # <<>> /\ line[1] = "Dialogue: 0,"
TimingPositions(doc) == { k \in 1..Len(doc) : IsTimingLine(doc[k]) }
DialoguePositions(doc) == { k \in 1..Len(doc) : IsDialogueLine(doc[k]) }
Nth(positions, i) ==
    CHOOSE k \in positions : Cardinality({q \in positions : q <= k}) = i
FirstLineOf(text) == SplitLines(text, <<>>)[1]

(***************************************************************************)
(* C22. Each of to_srt, to_vtt and to_ass emits one block (one Dialogue    *)
(* line) for every segment of the list, in the order of the list and also  *)
(* for a segment whose text is empty after strip(): the i-th timing line   *)
(* carries the times of the i-th segment and is followed by the first line *)
(* of its text, and in SRT it is preceded by the index i, counted from 1.  *)
(***************************************************************************)
C22_OneBlockPerSegmentInOrder ==
    LET segments == rendering.segments
        n == Len(segments)
    IN  /\ "to_srt" \in rendering.called =>
              LET doc == rendering.srt
                  at == TimingPositions(doc)
              IN  /\ Cardinality(at) = n
                  /\ \A i \in 1..n :
                        LET k == Nth(at, i)
                        IN  /\ k > 1
                            /\ doc[k - 1] = Digits(i)
                            /\ doc[k] = format_timestamp_srt(segments[i].start)
                                   \o Arrow
                                   \o format_timestamp_srt(segments[i].end)
                            /\ k < Len(doc)
                            /\ doc[k + 1] = FirstLineOf(strip(segments[i].text))
        /\ "to_vtt" \in rendering.called =>
              LET doc == rendering.vtt
                  at == TimingPositions(doc)
              IN  /\ Cardinality(at) = n
                  /\ \A i \in 1..n :
                        LET k == Nth(at, i)
                        IN  /\ doc[k] = format_timestamp_vtt(segments[i].start)
                                   \o Arrow
                                   \o format_timestamp_vtt(segments[i].end)
                            /\ k < Len(doc)
                            /\ doc[k + 1] = FirstLineOf(strip(segments[i].text))
        /\ "to_ass" \in rendering.called =>
              LET doc == rendering.ass
                  at == DialoguePositions(doc)
              IN  /\ Cardinality(at) = n
                  /\ \A i \in 1..n :
                        doc[Nth(at, i)] = DialogueLine(segments[i])

\* All three formats were rendered for a list of two segments with
\* different times, the first of which has a text that is empty after
\* strip().
C22_Witness ==
    /\ rendering.called = {"to_srt", "to_vtt", "to_ass"}
    /\ Len(rendering.segments) = 2
    /\ rendering.segments[1].start # rendering.segments[2].start
    /\ rendering.segments[1].text # <<>>
    /\ strip(rendering.segments[1].text) = <<>>
    /\ strip(rendering.segments[2].text) # <<>>

(***************************************************************************)
(* C23. For the empty segment list to_vtt returns the line WEBVTT followed *)
(* by a blank line and nothing else: the characters WEBVTT, newline,       *)
(* newline, that is the three lines WEBVTT, empty, empty of the split.     *)
(***************************************************************************)
C23_EmptyListGivesHeaderAndBlankLine ==
    ("to_vtt" \in rendering.called /\ rendering.segments = <<>>) =>
        rendering.vtt = << <<"WEBVTT">>, <<>>, <<>> >>

\* Observation: the fields of a printed time, read back as numbers.
DigitValue(c) == CHOOSE d \in 0..9 : Digit(d) = c
RECURSIVE NumberOf(_)
NumberOf(s) == IF s = <<>> THEN 0
               ELSE 10 * NumberOf(SubSeq(s, 1, Len(s) - 1))
                    + DigitValue(s[Len(s)])
IsNumber(s) == s # <<>> /\ \A k \in 1..Len(s) : \E d \in 0..9 : Digit(d) = s[k]
\* The text up to the first separator of a set, and the text after it.
RECURSIVE UpTo(_, _)
UpTo(s, seps) == IF s = <<>> \/ Head(s) \in seps THEN <<>>
                 ELSE <<Head(s)>> \o UpTo(Tail(s), seps)
After(s, seps) == SubSeq(s, Len(UpTo(s, seps)) + 2, Len(s))
StampFields(s) ==
    LET seps == {":", ",", "."}
        r1 == After(s, seps)
        r2 == After(r1, seps)
    IN  [H |-> UpTo(s, seps), M |-> UpTo(r1, seps), S |-> UpTo(r2, seps),
         frac |-> After(r2, seps),
         sep |-> IF Len(UpTo(r2, seps)) < Len(r2)
                 THEN r2[Len(UpTo(r2, seps)) + 1] ELSE ""]
WellFormedStamp(s) ==
    LET f == StampFields(s)
    IN  IsNumber(f.H) /\ IsNumber(f.M) /\ IsNumber(f.S) /\ IsNumber(f.frac)
StampMillis(s, unit) ==
    LET f == StampFields(s)
    IN  NumberOf(f.H) * 3600000 + NumberOf(f.M) * 60000
        + NumberOf(f.S) * 1000 + NumberOf(f.frac) * unit

(***************************************************************************)
(* C25. For a time of t whole milliseconds format_timestamp_srt and        *)
(* format_timestamp_vtt print fields H, M, S and mmm with M < 60, S < 60,  *)
(* mmm < 1000 that add up to t, with H, M and S of at least two digits and *)
(* mmm of three, and the two results differ only in the separator before   *)
(* mmm: a comma in SRT, a dot in VTT.                                      *)
(***************************************************************************)
C25_StampFieldsAddUpToTheTime ==
    (/\ rendering.given = "seconds"
     /\ {"format_timestamp_srt", "format_timestamp_vtt"}
            \subseteq rendering.called) =>
        LET s == StampFields(rendering.stamp_srt)
            v == StampFields(rendering.stamp_vtt)
        IN  /\ WellFormedStamp(rendering.stamp_srt)
            /\ WellFormedStamp(rendering.stamp_vtt)
            /\ NumberOf(s.M) < 60
            /\ NumberOf(s.S) < 60
            /\ NumberOf(s.frac) < 1000
            /\ StampMillis(rendering.stamp_srt, 1) = rendering.millis
            /\ Len(s.H) >= 2 /\ Len(s.M) = 2 /\ Len(s.S) = 2
            /\ Len(s.frac) = 3
            /\ s.sep = "," /\ v.sep = "."
            /\ [v EXCEPT !.sep = ","] = s

\* Observation: what a parser of each format reads from a document. The
\* blocks of a document are its runs of lines without a blank line; a cue
\* is a block with a timing line first, or second after one more line; the
\* text of a cue is what follows the timing line within the block.
RECURSIVE Blocks(_, _)
Blocks(lines, block) ==
    IF lines = <<>> THEN (IF block = <<>> THEN <<>> ELSE <<block>>)
    ELSE IF Head(lines) = <<>>
         THEN (IF block = <<>> THEN <<>> ELSE <<block>>)
              \o Blocks(Tail(lines), <<>>)
    ELSE Blocks(Tail(lines), Append(block, Head(lines)))

RECURSIVE TextOfLines(_)
TextOfLines(lines) ==
    IF lines = <<>> THEN <<>>
    ELSE IF Len(lines) = 1 THEN lines[1]
    ELSE lines[1] \o <<"\n">> \o TextOfLines(Tail(lines))

Distance(a, b) == IF a >= b THEN a - b ELSE b - a

CueOfBlock(block, k) ==
    [start |-> StampMillis(UpTo(block[k], {" --> "}), 1),
     end |-> StampMillis(After(block[k], {" --> "}), 1),
     text |-> TextOfLines(SubSeq(block, k + 1, Len(block)))]

RECURSIVE CuesOfBlocks(_, _)
CuesOfBlocks(blocks, indexed) ==
    IF blocks = <<>> THEN <<>>
    ELSE LET block == Head(blocks)
             cue == IF IsTimingLine(block[1]) /\ ~indexed
                        THEN <<CueOfBlock(block, 1)>>
                    ELSE IF Len(block) >= 2 /\ IsTimingLine(block[2])
                        THEN <<CueOfBlock(block, 2)>>
                    ELSE <<>>
         IN  cue \o CuesOfBlocks(Tail(blocks), indexed)

ParseSrt(doc) == CuesOfBlocks(Blocks(doc, <<>>), TRUE)
ParseVtt(doc) ==
    IF doc[1] # <<"WEBVTT">> THEN <<>>
    ELSE CuesOfBlocks(Blocks(Tail(doc), <<>>), FALSE)

RECURSIVE UnescapeNewlines(_)
UnescapeNewlines(s) ==
    IF s = <<>> THEN <<>>
    ELSE IF Len(s) >= 2 /\ s[1] = "\\" /\ s[2] = "N"
         THEN <<"\n">> \o UnescapeNewlines(Tail(Tail(s)))
    ELSE <<Head(s)>> \o UnescapeNewlines(Tail(s))

EventOfLine(line) ==
    LET fields == Tail(line)
        rest == After(fields, {","})
    IN  [start |-> StampMillis(UpTo(fields, {","}), 10),
         end |-> StampMillis(UpTo(rest, {",Default,,0,0,0,,"}), 10),
         text |-> UnescapeNewlines(After(rest, {",Default,,0,0,0,,"}))]

RECURSIVE ParseAss(_)
ParseAss(doc) ==
    IF doc = <<>> THEN <<>>
    ELSE (IF IsDialogueLine(Head(doc)) THEN <<EventOfLine(Head(doc))>>
          ELSE <<>>) \o ParseAss(Tail(doc))

\* The parsed cues are the segments: as many, each with the text of the
\* segment without the white space at its ends, and with times within
\* the resolution of the format.
SameSegments(cues, segments, resolution) ==
    /\ Len(cues) = Len(segments)
    /\ \A i \in 1..Len(segments) :
          /\ cues[i].text = strip(segments[i].text)
          /\ Distance(cues[i].start, segments[i].start) <= resolution
          /\ Distance(cues[i].end, segments[i].end) <= resolution

(***************************************************************************)
(* C24. For every segment list, with times in whole milliseconds and any   *)
(* text, a conformant parser of the format reads back from the output of   *)
(* to_srt, to_vtt or to_ass as many segments as the list has, each with    *)
(* the same text (up to the white space at its ends, which the formats     *)
(* trim) and with start and end within 1 ms (SRT, VTT) or 10 ms (ASS) of   *)
(* the input.                                                              *)
(***************************************************************************)
C24_ParsingGivesBackTheSegments ==
    /\ "to_srt" \in rendering.called =>
          SameSegments(ParseSrt(rendering.srt), rendering.segments, 1)
    /\ "to_vtt" \in rendering.called =>
          SameSegments(ParseVtt(rendering.vtt), rendering.segments, 1)
    /\ "to_ass" \in rendering.called =>
          SameSegments(ParseAss(rendering.ass), rendering.segments, 10)


\* Observation: the names a client may put in /download/<filename>, the
\* names of the files of every session among them, and the answer of the
\* application that runs.
RequestedNames ==
    DownloadNames \cup SimpleDownloadNames
    \cup {OutputName(s, stem, fmt) :
              s \in Sessions, stem \in {"original"} \cup Langs, fmt \in Formats}
    \cup {<<"subtitles_", s, ".zip">> : s \in Sessions}
AnswerOfDownload(c, filename) ==
    IF app = "app" THEN DownloadAnswer(c, filename)
    ELSE SimpleDownloadAnswer(c, filename)

\* Every file a download request is answered with lies in one of the two
\* folders and carries the session id of the client that asked.
DownloadsAreConfined ==
    \A c \in Clients, filename \in RequestedNames :
        LET answer == AnswerOfDownload(c, filename)
        IN  answer.status = 200 =>
                /\ answer.file \in outputs \cup uploads
                /\ sess[c].session_id # ""
                /\ PathSessionId(answer.file) = sess[c].session_id

(***************************************************************************)
(* C26. A download request with a caller-supplied file name is answered    *)
(* only with a file of the upload folder or the output folder that belongs *)
(* to the session of the client that asks; for any other name the answer   *)
(* is not-found (a client without a session id may be refused instead).    *)
(***************************************************************************)
C26_DownloadConfinedOrNotFound ==
    \A c \in Clients, filename \in RequestedNames :
        LET answer == AnswerOfDownload(c, filename)
        IN  IF answer.status = 200
            THEN /\ answer.file \in outputs \cup uploads
                 /\ PathSessionId(answer.file) = sess[c].session_id
            ELSE \/ answer.status = 404
                 \/ answer.status = 403 /\ sess[c].session_id = ""

(***************************************************************************)
(* app.py with to_format taken from the specification, and a client whose  *)
(* /process request names up to MaxManyLangs target languages.             *)
(***************************************************************************)
ManyLangLists == Prefixes(LANGUAGE_CODES, MaxManyLangs)
MaxManyUnits == MaxFormats * (1 + MaxManyLangs)

ProcessMany(c, formats, targets) ==
    /\ \A j \in JobIds : ~Running(j)
    /\ ProcessWithin(c, formats, targets, MaxJobs, MaxManyUnits)

InitProgress == InitRender /\ app = "app"
NextProgress ==
    \/ FirstUpload
    \/ \E c \in Clients, f \in FormatLists, t \in ManyLangLists :
          ProcessMany(c, f, t)
    \/ \E j \in JobIds : EmitStart(j)
    \/ \E j \in JobIds : ExtractOrClean(j)
    \/ \E j \in JobIds : TranscribeAudio(j)
    \/ \E j \in JobIds : EmitTranscribed(j)
    \/ \E j \in JobIds : FormatOriginal(j)
    \/ \E j \in JobIds : TranslateUnit(j)
    \/ \E j \in JobIds : Publish(j)
    \/ \E j \in JobIds : HandleException(j)
SpecProgress == InitProgress /\ [][NextProgress]_vars

(***************************************************************************)
(* C27. When the k-th unit of the loop over formats and languages has      *)
(* finished, the percentage emitted is floor(100 * k / total) with         *)
(* total = |formats| * (1 + |target languages|); a unit whose translation  *)
(* failed counts as finished, and every percentage emitted is a whole      *)
(* number from 0 to 100.                                                   *)
(***************************************************************************)
C27_PercentageIsFloorOfUnitsDone ==
    [][\A j \in JobIds :
          jobs'[j].current_task = jobs[j].current_task + 1 =>
              LET k == jobs'[j].current_task
                  total == Len(jobs[j].formats) * (1 + Len(jobs[j].targets))
                  last == jobs'[j].events[Len(jobs'[j].events)]
              IN  /\ Len(jobs'[j].events) > Len(jobs[j].events)
                  /\ last.name = "progress_update"
                  /\ last.progress = (100 * k) \div total
                  /\ last.progress \in 0..100]_vars

(***************************************************************************)
(* upload_file with the file name the client chose (app.py and             *)
(* simple_app.py alike): the kind is read from the name as given, the file *)
(* is stored under the secure_filename of that name.                       *)
(***************************************************************************)
ClientFilenames ==
    { <<"clip", ".", "mp4">>, <<"talk", ".", "mp3">>,
      <<NonAscii, ".", "mp4">>, <<NonAscii, ".", "mp3">>,
      <<"notes", ".", "txt">> }

UploadAnswer(filename) ==
    IF get_file_type(filename) = "none"
       \/ AfterLastDot(filename)[1]
              \notin ALLOWED_EXTENSIONS(get_file_type(filename))
    THEN Response(400, <<>>)
    ELSE Response(200, <<>>)

UploadFile(c, filename) ==
    LET stored == secure_filename(filename)
        path == UploadName(c, stored)
    IN  /\ sess[c].uploaded_file = NoFile
        /\ IF UploadAnswer(filename).status = 200
           THEN /\ uploads' = uploads \cup {path}
                /\ sess' = [sess EXCEPT ![c] =
                              [@ EXCEPT !.session_id = c,
                                        !.uploaded_file =
                                            [filename |-> stored,
                                             path |-> path,
                                             type |-> get_file_type(filename)]]]
           ELSE UNCHANGED <<uploads, sess>>
        /\ UNCHANGED <<request_vars, service_vars, cleanup_vars, translation,
                       app, formatter_api, outputs, jobs, njobs>>

NextDemux ==
    \/ \E c \in Clients, filename \in ClientFilenames : UploadFile(c, filename)
    \/ \E c \in Clients, f \in FormatLists, t \in LangLists : Process(c, f, t)
    \/ \E j \in JobIds : Step(j)
SpecDemux == Init /\ [][NextDemux]_vars

\* Observation: extract_audio was called for job j; it wrote the temporary
\* audio file or it raised.
Demuxed(j) ==
    \/ AudioName(PathSessionId(jobs[j].file_info.path)) \in jobs[j].wrote
    \/ jobs[j].exc = "extract_audio"
PastExtraction(j) == jobs[j].pc \notin {"idle", "start", "transcribe_file"}

(***************************************************************************)
(* C28. extract_audio is called for a job if and only if the kind of the   *)
(* job's file, as upload_file determined it, is video; for an audio upload *)
(* the job goes to transcribe_audio with the uploaded file and nothing is  *)
(* extracted.                                                              *)
(***************************************************************************)
C28_DemuxIffUploadedKindIsVideo ==
    \A j \in JobIds :
        PastExtraction(j) =>
            (Demuxed(j) <=> jobs[j].file_info.type = "video")

(***************************************************************************)
(* C29. For every index i the i-th segment that translate_transcript       *)
(* returns has the start and the end of the i-th segment it was given, and *)
(* its text is the translator's result when the call for that segment      *)
(* succeeded and the text of the given segment when that call raised.      *)
(***************************************************************************)
C29_TimesKeptTextTranslatedOrOriginal ==
    (translation.called /\ translation.segments.type = "list") =>
        LET given == translation.segments.value
            returned == translation.result.value
        IN  /\ translation.result.type = "list"
            /\ Len(returned) = Len(given)
            /\ \A i \in 1..Len(given) :
                  /\ returned[i].start = given[i].start
                  /\ returned[i].end = given[i].end
                  /\ returned[i].text =
                         IF i \in translation.failing THEN given[i].text
                         ELSE <<translation.target_language, given[i].text>>

\* A transcript of more than one batch: the last call of the first batch
\* succeeded and the first call of the second batch raised.
C29_Witness ==
    /\ translation.called
    /\ translation.segments.type = "list"
    /\ PyLen(translation.segments) > batch_size
    /\ (batch_size + 1) \in translation.failing
    /\ batch_size \notin translation.failing
    /\ translation.result.value[batch_size + 1].text
           = translation.segments.value[batch_size + 1].text
    /\ translation.result.value[batch_size].text
           # translation.segments.value[batch_size].text
    /\ translation.result.value[batch_size].start
           = translation.segments.value[batch_size].start


(***************************************************************************)
(* C30. Every artifact that a processing_complete event lists can be       *)
(* fetched by its owner: a download request of the session of the job for  *)
(* the listed file name of the artifact is answered with the file at the   *)
(* artifact's path, for the original variant and for every translated one. *)
(***************************************************************************)
C30_ListedArtifactsCanBeFetched ==
    \A j \in JobIds, c \in Clients :
        (app = "app" /\ sess[c].session_id = jobs[j].sid) =>
            \A i \in 1..Len(jobs[j].events) :
                jobs[j].events[i].name = "processing_complete" =>
                    \A k \in 1..Len(jobs[j].events[i].files) :
                        LET artifact == jobs[j].events[i].files[k]
                        IN  DownloadAnswer(c, artifact.filename)
                                = Response(200, artifact.path)

\* The same for the original variant alone.
OriginalArtifactsCanBeFetched ==
    \A j \in JobIds, c \in Clients :
        (app = "app" /\ sess[c].session_id = jobs[j].sid) =>
            \A i \in 1..Len(jobs[j].events) :
                jobs[j].events[i].name = "processing_complete" =>
                    \A k \in 1..Len(jobs[j].events[i].files) :
                        LET artifact == jobs[j].events[i].files[k]
                        IN  artifact.language = "original" =>
                                DownloadAnswer(c, artifact.filename)
                                    = Response(200, artifact.path)

\* Observation: transcribe_file has finished for job j, by a return or by
\* an exception, and extract_audio had written the audio file of the job.
TranscribeFileFinished(j) ==
    jobs[j].pc \notin {"idle", "start", "transcribe_file", "transcribe_audio"}
ExtractedAudio(j) == AudioName(PathSessionId(jobs[j].file_info.path))

(***************************************************************************)
(* C31. Whenever transcribe_file has finished for a video, with a          *)
(* transcript or with the exception of a failed transcription, the audio   *)
(* file that extract_audio wrote to the output folder for it is no longer  *)
(* there.                                                                  *)
(***************************************************************************)
C31_ExtractedAudioIsGoneAfterwards ==
    \A j \in JobIds :
        (/\ TranscribeFileFinished(j)
         /\ IsVideoPath(jobs[j].file_info.path)
         /\ ExtractedAudio(j) \in jobs[j].wrote) =>
            ExtractedAudio(j) \notin outputs

\* The same for the calls that return a transcript.
ExtractedAudioIsGoneAfterSuccess ==
    \A j \in JobIds :
        (/\ TranscribeFileFinished(j)
         /\ IsVideoPath(jobs[j].file_info.path)
         /\ ExtractedAudio(j) \in jobs[j].wrote
         /\ Fault("transcribe_audio", "", "") \notin jobs[j].faults) =>
            ExtractedAudio(j) \notin outputs

\* An upload of session s2 whose name, chosen by the client, holds the
\* identifier of session s1: secure_filename keeps the letters, digits and
\* dashes of a uuid.
NamedByClient ==
    Entry("uploads",
          UploadName("s2", secure_filename(<<"s1", ".", "mp4">>)), 0)
OwnedNames == DiskNames \o <<NamedByClient>>

\* The folders hold any of the files of OwnedNames when the call is made.
InitOwned ==
    /\ cancel_requested = [c \in Sessions |-> NoRequest]
    /\ zips = [c \in Sessions |-> {}]
    /\ ServicesAtRest
    /\ translation = NoCall
    /\ app \in Apps
    /\ formatter_api = SubtitleFormatterMethods
    /\ sess = [c \in Sessions |-> EmptySession]
    /\ uploads = {}
    /\ outputs = {}
    /\ jobs = [j \in JobIds |-> IdleJob]
    /\ njobs = 0
    /\ now = StartClock
    /\ sweep = NoSweep
    /\ scrub = NoScrub
    /\ \E present \in SUBSET (1..Len(OwnedNames)) :
         \E mtimes \in [present -> StartMtimes] :
            /\ \A i \in present :
                  Hidden(OwnedNames[i].name) => mtimes[i] = 0
            /\ disk = {Entry(OwnedNames[i].root, OwnedNames[i].name,
                             mtimes[i]) : i \in present}
SpecOwned == InitOwned /\ [][NextScrub]_vars

\* Observation: the entries whose name begins with the identifier of a
\* session other than id.
OwnedByAnother(id, entries) ==
    {e \in entries : e.name[1] \in Sessions \ {id}}

(***************************************************************************)
(* C32. cleanup_session_files(id) deletes no file of another session: an   *)
(* entry whose name begins with the identifier of a different session is   *)
(* still there after the call, whatever the rest of its name is.           *)
(***************************************************************************)
C32_ScrubKeepsFilesOfOtherSessions ==
    scrub.called => OwnedByAnother(scrub.session_id, scrub.removed) = {}

\* The same for the files of other sessions whose name does not hold id.
ScrubKeepsFilesNotNamingTheSession ==
    scrub.called =>
        \A e \in OwnedByAnother(scrub.session_id, scrub.removed) :
            NamedAfter(scrub.session_id, {e}) # {}

\* Observation: the positions of the terminal events among the events of a
\* job.
TerminalEvents == {"processing_complete", "processing_error"}
TerminalPositions(j) ==
    {i \in 1..Len(jobs[j].events) : jobs[j].events[i].name \in TerminalEvents}

(***************************************************************************)
(* C33. A job emits at most one terminal event: never both                 *)
(* processing_complete and processing_error, never one of them twice, and  *)
(* no progress_update (no event at all) after it.                          *)
(***************************************************************************)
C33_AtMostOneTerminalEventAndItIsLast ==
    \A j \in JobIds :
        /\ Cardinality(TerminalPositions(j)) <= 1
        /\ TerminalPositions(j) \subseteq {Len(jobs[j].events)}
        /\ TerminalPositions(j) # {} => jobs[j].pc = "done"

\* A job of app.py whose session store or url_for raised after the last
\* progress_update, at the statement before the completed event: it ended
\* with processing_error only.
C33_Witness ==
    \E j \in JobIds :
        /\ app = "app" /\ jobs[j].pc = "done"
        /\ jobs[j].exc \in {"session_error", "url_for_error"}
        /\ Len(jobs[j].events) > 1
        /\ LastEventName(j) = "processing_error"
        /\ jobs[j].events[Len(jobs[j].events) - 1].name = "progress_update"

\* A job of app.py that ended with processing_complete.
C33_CompletedJob ==
    \E j \in JobIds :
        /\ app = "app" /\ jobs[j].pc = "done"
        /\ Len(jobs[j].events) > 1
        /\ LastEventName(j) = "processing_complete"
=============================================================================
